---- MODULE Spec2Model ----
(***************************************************************************)
(* Reed-Solomon RS(15,11) codec for DNA storage (schifra::dna_storage) and *)
(* the block pipelines built on it.                                        *)
(*                                                                         *)
(* DNA strings are sequences of one-character strings; a block handed to   *)
(* the Reed-Solomon coder is a sequence of 15 field symbols, block[1] being *)
(* block.data[0] of the source.                                            *)
(***************************************************************************)
EXTENDS Integers, Sequences, FiniteSets, TLC

(***************************************************************************)
(* Code parameters.                                                        *)
(***************************************************************************)
CodeLength == 15
FecLength == 4
DataLength == CodeLength - FecLength
BLOCK_SIZE == 11
ECC_SYMBOLS == CodeLength - BLOCK_SIZE
field_descriptor == 4
FieldSize == 2^field_descriptor - 1
generator_polynomial_index == 1

(***************************************************************************)
(* Bounds of the model.                                                    *)
(***************************************************************************)
MaxSubst == 3
MaxThreads == 2
MaxErrorsPerBlock == 3
MaxSymbolErrors == 2

(***************************************************************************)
(* Galois field GF(2^4), primitive polynomial x^4 + x + 1.                 *)
(***************************************************************************)
RECURSIVE BitXor(_, _)
BitXor(a, b) ==
    IF a = 0 THEN b
    ELSE IF b = 0 THEN a
    ELSE (((a % 2) + (b % 2)) % 2) + 2 * BitXor(a \div 2, b \div 2)

XorTable == [a \in 0..15 |-> [b \in 0..15 |-> BitXor(a, b)]]

gf_add(a, b) == XorTable[a][b]

primitive_polynomial01 == 19

RECURSIVE AlphaPower(_)
AlphaPower(i) ==
    IF i = 0 THEN 1
    ELSE LET d == 2 * AlphaPower(i - 1)
         IN  IF d >= 16 THEN BitXor(d, primitive_polynomial01) ELSE d

ExpTable == [i \in 0..(FieldSize - 1) |-> AlphaPower(i)]

LogTable == [e \in 1..FieldSize |-> CHOOSE i \in 0..(FieldSize - 1) : ExpTable[i] = e]

alpha(i) == ExpTable[i % FieldSize]

gf_mul(a, b) ==
    IF a = 0 \/ b = 0 THEN 0
    ELSE ExpTable[(LogTable[a] + LogTable[b]) % FieldSize]

gf_div(a, b) ==
    IF a = 0 THEN 0
    ELSE ExpTable[(LogTable[a] - LogTable[b] + FieldSize) % FieldSize]

gf_exp(a, p) ==
    IF a = 0 THEN 0
    ELSE ExpTable[(LogTable[a] * (p % FieldSize)) % FieldSize]

(***************************************************************************)
(* With(F, x) is F(x) with x evaluated once.                               *)
(***************************************************************************)
With(F(_), x) == CHOOSE r \in {F(v) : v \in {x}} : TRUE

(***************************************************************************)
(* Polynomials over the field: functions from 0..d to symbols, index =     *)
(* degree of the term.                                                     *)
(***************************************************************************)
PolyDeg(p) ==
    LET nz == {i \in DOMAIN p : p[i] # 0}
    IN  IF nz = {} THEN 0 ELSE CHOOSE i \in nz : \A j \in nz : j <= i

RECURSIVE Horner(_, _, _, _)
Horner(p, x, i, acc) ==
    IF i < 0 THEN acc
    ELSE Horner(p, x, i - 1, gf_add(gf_mul(acc, x), p[i]))

PolyEval(p, d, x) == Horner(p, x, d, 0)

RECURSIVE XorSum(_, _, _)
XorSum(f, lo, hi) ==
    IF lo > hi THEN 0
    ELSE gf_add(f[lo], XorSum(f, lo + 1, hi))

PolyMul(p, q) ==
    LET dp == PolyDeg(p)
        dq == PolyDeg(q)
    IN  [k \in 0..(dp + dq) |->
            XorSum([i \in 0..dp |-> IF k - i \in 0..dq THEN gf_mul(p[i], q[k - i]) ELSE 0],
                   0, dp)]

(***************************************************************************)
(* Generator polynomial g(x) = (x + a^1)(x + a^2)(x + a^3)(x + a^4).       *)
(***************************************************************************)
RECURSIVE SequentialRootProduct(_, _)
SequentialRootProduct(index, count) ==
    IF count = 0 THEN [k \in 0..0 |-> 1]
    ELSE PolyMul(SequentialRootProduct(index, count - 1),
                 [k \in 0..1 |-> IF k = 0 THEN alpha(index + count - 1) ELSE 1])

generator_poly == SequentialRootProduct(generator_polynomial_index, FecLength)

(***************************************************************************)
(* Reed-Solomon encoder over a 15-symbol block: the data symbol block[i+1] *)
(* is the coefficient of x^(14-i); the parity symbols are the remainder of *)
(* the message polynomial modulo the generator polynomial.                 *)
(***************************************************************************)
RECURSIVE PolyRemainder(_, _)
PolyRemainder(r, d) ==
    IF d < FecLength THEN r
    ELSE LET c == r[d]
             lo == d - FecLength
         IN  PolyRemainder([k \in DOMAIN r |->
                               IF k \in lo..d
                               THEN gf_add(r[k], gf_mul(c, generator_poly[k - lo]))
                               ELSE r[k]],
                           d - 1)

rs_encoder_encode(block) ==
    LET msg == [k \in 0..(CodeLength - 1) |->
                   IF k >= FecLength THEN block[CodeLength - k] ELSE 0]
        parities == PolyRemainder(msg, CodeLength - 1)
    IN  [i \in 1..CodeLength |->
            IF i <= DataLength THEN block[i]
            ELSE parities[FecLength - 1 - (i - DataLength - 1)]]

(***************************************************************************)
(* Reed-Solomon decoder: syndromes, Berlekamp-Massey, root search, Forney. *)
(***************************************************************************)
load_message(block) == [k \in 0..(CodeLength - 1) |-> block[CodeLength - k]]

compute_syndrome(received) ==
    [j \in 0..(FecLength - 1) |-> PolyEval(received, CodeLength - 1, alpha(generator_polynomial_index + j))]

Discrepancy(C, S, L, n) ==
    XorSum([i \in 0..L |-> IF i = 0 THEN S[n] ELSE gf_mul(C[i], S[n - i])], 0, L)

bm_update(st, d, n) ==
    With(LAMBDA C2 :
             IF 2 * st.L <= n
             THEN [C |-> C2, B |-> st.C, L |-> n + 1 - st.L, m |-> 1, b |-> d]
             ELSE [st EXCEPT !.C = C2, !.m = st.m + 1],
         [k \in 0..FecLength |->
             IF k >= st.m
             THEN gf_add(st.C[k], gf_mul(gf_div(d, st.b), st.B[k - st.m]))
             ELSE st.C[k]])

bm_step(st, S, n) ==
    With(LAMBDA d : IF d = 0 THEN [st EXCEPT !.m = st.m + 1] ELSE bm_update(st, d, n),
         Discrepancy(st.C, S, st.L, n))

RECURSIVE berlekamp_massey(_, _, _)
berlekamp_massey(st, S, n) ==
    IF n = FecLength THEN st.C
    ELSE With(LAMBDA st2 : berlekamp_massey(st2, S, n + 1), bm_step(st, S, n))

OnePoly == [k \in 0..FecLength |-> IF k = 0 THEN 1 ELSE 0]

find_roots(lambda) == {i \in 1..CodeLength : PolyEval(lambda, FecLength, alpha(i)) = 0}

PolyDerivative(p) ==
    [k \in 0..(FecLength - 1) |-> IF (k + 1) % 2 = 1 THEN p[k + 1] ELSE 0]

root_exponent_table(i) == gf_exp(alpha(CodeLength - i), 1 - generator_polynomial_index + FieldSize)

error_magnitudes(error_locations, omega, lambda_derivative) ==
    [loc \in error_locations |->
        [numerator |-> gf_mul(PolyEval(omega, FecLength - 1, alpha(loc)),
                              root_exponent_table(loc)),
         denominator |-> PolyEval(lambda_derivative, FecLength - 1, alpha(loc))]]

forney_correct(mag, degree_ok, block) ==
    IF \E loc \in DOMAIN mag : mag[loc].numerator # 0 /\ mag[loc].denominator = 0
    THEN [ok |-> FALSE, block |-> block]
    ELSE [ok |-> degree_ok,
          block |-> [i \in 1..CodeLength |->
                        IF i \in DOMAIN mag /\ mag[i].numerator # 0
                        THEN gf_add(block[i], gf_div(mag[i].numerator, mag[i].denominator))
                        ELSE block[i]]]

forney_algorithm(error_locations, lambda, S, block) ==
    With(LAMBDA prod :
             With(LAMBDA mag :
                      forney_correct(mag, PolyDeg(lambda) = Cardinality(error_locations), block),
                  error_magnitudes(error_locations,
                                   [k \in 0..(FecLength - 1) |->
                                       IF k \in DOMAIN prod THEN prod[k] ELSE 0],
                                   PolyDerivative(lambda))),
         PolyMul(lambda, S))

decode_with_lambda(lambda, S, block) ==
    With(LAMBDA error_locations :
             IF error_locations = {} THEN [ok |-> FALSE, block |-> block]
             ELSE IF 2 * Cardinality(error_locations) > FecLength
                  THEN [ok |-> FALSE, block |-> block]
                  ELSE forney_algorithm(error_locations, lambda, S, block),
         find_roots(lambda))

decode_with_syndrome(S, block) ==
    IF \A j \in 0..(FecLength - 1) : S[j] = 0
    THEN [ok |-> TRUE, block |-> block]
    ELSE With(LAMBDA lambda : decode_with_lambda(lambda, S, block),
              berlekamp_massey([C |-> OnePoly, B |-> OnePoly, L |-> 0, m |-> 1, b |-> 1], S, 0))

rs_decoder_decode(block) ==
    With(LAMBDA S : decode_with_syndrome(S, block), compute_syndrome(load_message(block)))

(***************************************************************************)
(* dna_storage: the DNA alphabet and its mapping to field symbols.         *)
(***************************************************************************)
Bases == <<"A", "C", "G", "T">>

toupper(c) ==
    CASE c = "a" -> "A"
      [] c = "c" -> "C"
      [] c = "g" -> "G"
      [] c = "t" -> "T"
      [] c = "n" -> "N"
      [] OTHER -> c

dna_to_symbol_swapped ==
    [c \in {"A", "a", "C", "c", "G", "g", "T", "t"} |->
        CASE c \in {"A", "a"} -> 0
          [] c \in {"C", "c"} -> 2
          [] c \in {"G", "g"} -> 1
          [] OTHER -> 3]

dna_to_symbol_ ==
    [c \in {"A", "a", "C", "c", "G", "g", "T", "t"} |->
        CASE c \in {"A", "a"} -> 0
          [] c \in {"C", "c"} -> 1
          [] c \in {"G", "g"} -> 2
          [] OTHER -> 3]

symbol_to_dna_reversed == [s \in 0..3 |-> Bases[4 - s]]

symbol_to_dna_ == [s \in 0..3 |-> Bases[s + 1]]

validate_dna_first(dna) ==
    /\ Len(dna) # 0
    /\ toupper(dna[1]) \in DOMAIN dna_to_symbol_

validate_dna(dna) ==
    /\ Len(dna) # 0
    /\ \A i \in 1..Len(dna) : toupper(dna[i]) \in DOMAIN dna_to_symbol_

dna_to_symbols_throws(dna_sequence) ==
    \E i \in 1..Len(dna_sequence) : toupper(dna_sequence[i]) \notin DOMAIN dna_to_symbol_

dna_to_symbols_collapsed(dna_sequence) ==
    [i \in 1..Len(dna_sequence) |->
        IF toupper(dna_sequence[i]) = "T" THEN 0
        ELSE dna_to_symbol_[toupper(dna_sequence[i])]]

dna_to_symbols(dna_sequence) ==
    [i \in 1..Len(dna_sequence) |-> dna_to_symbol_[toupper(dna_sequence[i])]]

symbols_to_dna_throws(symbols) == \E i \in 1..Len(symbols) : symbols[i] \notin DOMAIN symbol_to_dna_

symbols_to_dna_rotated(symbols) ==
    [i \in 1..Len(symbols) |-> symbol_to_dna_[(symbols[i] + 1) % 4]]

symbols_to_dna(symbols) == [i \in 1..Len(symbols) |-> symbol_to_dna_[symbols[i]]]

(***************************************************************************)
(* dna_storage::encode and dna_storage::decode.  status is "ok" or the     *)
(* exception thrown.                                                       *)
(***************************************************************************)
encode_block_reversed(symbols) ==
    [i \in 1..CodeLength |-> IF i <= DataLength THEN symbols[DataLength + 1 - i] ELSE 0]

encode_block(symbols) ==
    [i \in 1..CodeLength |-> IF i <= DataLength THEN symbols[i] ELSE 0]

encode_shifted_ecc(dna_sequence) ==
    IF ~validate_dna(dna_sequence)
    THEN [status |-> "invalid_argument", what |-> "Invalid DNA sequence",
          dna |-> <<>>, ecc |-> <<>>]
    ELSE IF Len(dna_sequence) # DataLength
    THEN [status |-> "invalid_argument", what |-> "DNA sequence length",
          dna |-> <<>>, ecc |-> <<>>]
    ELSE With(LAMBDA block :
                  [status |-> "ok",
                   what |-> "",
                   dna |-> dna_sequence,
                   ecc |-> [i \in 1..FecLength |-> block[DataLength + i - 1]]],
              rs_encoder_encode(encode_block(dna_to_symbols(dna_sequence))))

encode(dna_sequence) ==
    IF ~validate_dna(dna_sequence)
    THEN [status |-> "invalid_argument", what |-> "Invalid DNA sequence",
          dna |-> <<>>, ecc |-> <<>>]
    ELSE IF Len(dna_sequence) # DataLength
    THEN [status |-> "invalid_argument", what |-> "DNA sequence length",
          dna |-> <<>>, ecc |-> <<>>]
    ELSE IF dna_to_symbols_throws(dna_sequence)
    THEN [status |-> "runtime_error", what |-> "Invalid DNA character",
          dna |-> <<>>, ecc |-> <<>>]
    ELSE With(LAMBDA block :
                  [status |-> "ok",
                   what |-> "",
                   dna |-> dna_sequence,
                   ecc |-> [i \in 1..FecLength |-> block[DataLength + i]]],
              rs_encoder_encode(encode_block(dna_to_symbols(dna_sequence))))

decode_result_skipping(res) ==
    IF ~res.ok
    THEN [status |-> "runtime_error", what |-> "Reed-Solomon decoding failed",
          dna |-> <<>>, block |-> res.block]
    ELSE [status |-> "ok", what |-> "",
          dna |-> symbols_to_dna(SelectSeq(SubSeq(res.block, 1, DataLength),
                                           LAMBDA x : x \in DOMAIN symbol_to_dna_)),
          block |-> res.block]

decode_result(res) ==
    With(LAMBDA data :
             IF ~res.ok
             THEN [status |-> "runtime_error", what |-> "Reed-Solomon decoding failed",
                   dna |-> <<>>, block |-> res.block]
             ELSE IF symbols_to_dna_throws(data)
             THEN [status |-> "runtime_error", what |-> "Invalid symbol value",
                   dna |-> <<>>, block |-> res.block]
             ELSE [status |-> "ok", what |-> "", dna |-> symbols_to_dna(data),
                   block |-> res.block],
         SubSeq(res.block, 1, DataLength))

decode_block_reversed_ecc(symbols, ecc_symbols) ==
    [i \in 1..CodeLength |->
        IF i <= DataLength THEN symbols[i] ELSE ecc_symbols[CodeLength - i + 1]]

decode_block(symbols, ecc_symbols) ==
    [i \in 1..CodeLength |->
        IF i <= DataLength THEN symbols[i] ELSE ecc_symbols[i - DataLength]]

decode_ecc_at_least(dna_sequence, ecc_symbols) ==
    IF ~validate_dna(dna_sequence)
    THEN [status |-> "invalid_argument", what |-> "Invalid DNA sequence",
          dna |-> <<>>, block |-> <<>>]
    ELSE IF Len(dna_sequence) # DataLength
    THEN [status |-> "invalid_argument", what |-> "DNA sequence length",
          dna |-> <<>>, block |-> <<>>]
    ELSE IF Len(ecc_symbols) < FecLength
    THEN [status |-> "invalid_argument", what |-> "ECC symbols length",
          dna |-> <<>>, block |-> <<>>]
    ELSE With(LAMBDA res : decode_result(res),
              rs_decoder_decode(decode_block(dna_to_symbols(dna_sequence), ecc_symbols)))

decode(dna_sequence, ecc_symbols) ==
    IF ~validate_dna(dna_sequence)
    THEN [status |-> "invalid_argument", what |-> "Invalid DNA sequence",
          dna |-> <<>>, block |-> <<>>]
    ELSE IF Len(dna_sequence) # DataLength
    THEN [status |-> "invalid_argument", what |-> "DNA sequence length",
          dna |-> <<>>, block |-> <<>>]
    ELSE IF Len(ecc_symbols) # FecLength
    THEN [status |-> "invalid_argument", what |-> "ECC symbols length",
          dna |-> <<>>, block |-> <<>>]
    ELSE IF dna_to_symbols_throws(dna_sequence)
    THEN [status |-> "runtime_error", what |-> "Invalid DNA character",
          dna |-> <<>>, block |-> <<>>]
    ELSE With(LAMBDA res : decode_result(res),
              rs_decoder_decode(decode_block(dna_to_symbols(dna_sequence), ecc_symbols)))

(***************************************************************************)
(* Block chunking and padding.                                             *)
(***************************************************************************)
Min(a, b) == IF a < b THEN a ELSE b

NumDiffCommon(s, t) == Cardinality({i \in 1..Min(Len(s), Len(t)) : s[i] # t[i]})

split_into_blocks(input, block_size) ==
    [k \in 1..((Len(input) + block_size - 1) \div block_size) |->
        SubSeq(input, (k - 1) * block_size + 1, Min(k * block_size, Len(input)))]

pad_block_left(block, target_size) ==
    IF Len(block) >= target_size THEN block
    ELSE [i \in 1..(target_size - Len(block)) |-> "A"] \o block

pad_block(block, target_size) ==
    IF Len(block) >= target_size THEN block
    ELSE block \o [i \in 1..(target_size - Len(block)) |-> "A"]

remove_padding_kept(block, original_size) == block

remove_padding(block, original_size) ==
    IF Len(block) <= original_size THEN block
    ELSE SubSeq(block, 1, original_size)

RECURSIVE Concat(_, _)
Concat(strings, k) ==
    IF k > Len(strings) THEN <<>>
    ELSE strings[k] \o Concat(strings, k + 1)

(***************************************************************************)
(* introduce_errors: error_count draws of a position and of a base other   *)
(* than the one at that position.  The result is the set of strings the    *)
(* random draws can produce; RngPositions are the positions drawn.         *)
(***************************************************************************)
RngPositions == {2, 6}

RECURSIVE introduce_errors(_, _)
introduce_errors(sequences, error_count) ==
    IF error_count = 0 THEN sequences
    ELSE introduce_errors({[s EXCEPT ![pos] = new_base] :
                               <<s, pos, new_base>> \in
                                   {x \in sequences \X RngPositions \X {"A", "C", "G", "T"} :
                                       x[3] # x[1][x[2]]}},
                          error_count - 1)

(***************************************************************************)
(* process_block of the parallel and sequential pipelines: the set of      *)
(* results the random draws allow.                                         *)
(***************************************************************************)
process_block_decode(original_block, corrupted_dna, ecc_symbols) ==
    With(LAMBDA dec :
             IF dec.status # "ok" THEN [success |-> FALSE, decoded_sequence |-> <<>>]
             ELSE [success |-> TRUE,
                   decoded_sequence |-> SubSeq(dec.dna, 1, Min(Len(original_block), Len(dec.dna)))],
         decode(corrupted_dna, ecc_symbols))

process_block(original_block, error_count) ==
    With(LAMBDA enc :
             IF enc.status # "ok" THEN {[success |-> FALSE, decoded_sequence |-> <<>>]}
             ELSE {process_block_decode(original_block, c, enc.ecc) :
                      c \in introduce_errors({enc.dna}, Min(error_count, ECC_SYMBOLS \div 2))},
         encode(original_block))

(***************************************************************************)
(* process_block of the benchmark pipeline: block statistics and the       *)
(* decoded block; an exception leaves 'N' characters.                      *)
(***************************************************************************)
NoStats == [errors_introduced |-> 0, errors_corrected |-> 0]

bench_block_decode(original_block, corrupted_dna, ecc_symbols, errors_to_introduce) ==
    With(LAMBDA dec :
             IF dec.status # "ok"
             THEN [stats |-> [errors_introduced |-> errors_to_introduce,
                              errors_corrected |-> 0],
                   threw |-> TRUE,
                   decoded_sequence |-> [i \in 1..Len(original_block) |-> "N"]]
             ELSE [stats |-> [errors_introduced |-> errors_to_introduce,
                              errors_corrected |-> NumDiffCommon(corrupted_dna, dec.dna)],
                   threw |-> FALSE,
                   decoded_sequence |->
                       IF Len(dec.dna) >= Len(original_block)
                       THEN SubSeq(dec.dna, 1, Len(original_block))
                       ELSE pad_block(dec.dna, Len(original_block))],
         decode(corrupted_dna, ecc_symbols))

bench_process_block_cleared(original_block, error_count) ==
    With(LAMBDA enc :
             IF enc.status # "ok"
             THEN {[stats |-> NoStats, threw |-> TRUE, decoded_sequence |-> <<>>]}
             ELSE {bench_block_decode(original_block, c, enc.ecc,
                                      Min(error_count, ECC_SYMBOLS \div 2)) :
                      c \in introduce_errors({enc.dna}, Min(error_count, ECC_SYMBOLS \div 2))},
         encode(original_block))

bench_process_block(original_block, error_count) ==
    With(LAMBDA enc :
             IF enc.status # "ok"
             THEN {[stats |-> NoStats,
                    threw |-> TRUE,
                    decoded_sequence |-> [i \in 1..Len(original_block) |-> "N"]]}
             ELSE {bench_block_decode(original_block, c, enc.ecc,
                                      Min(error_count, ECC_SYMBOLS \div 2)) :
                      c \in introduce_errors({enc.dna}, Min(error_count, ECC_SYMBOLS \div 2))},
         encode(original_block))

(***************************************************************************)
(* State of the single-block run (run_test): a block is encoded, its data  *)
(* bases are substituted, and the result is decoded with the original ecc. *)
(***************************************************************************)
VARIABLES original, encoded_dna, ecc, corrupted, received_ecc, corrected, rs_block,
          status, what, cpc

codecVars == <<original, encoded_dna, ecc, corrupted, received_ecc, corrected, rs_block,
               status, what, cpc>>

(***************************************************************************)
(* State of one call of a sequence pipeline.  variant names the function:  *)
(* "parallel" (process_dna_sequence of the OpenMP program and              *)
(* process_dna_sequence_parallel), "sequential" (process_dna_sequence of   *)
(* the comparison program) or "benchmark" (process_dna_sequence returning  *)
(* a BenchmarkResult).  worker[w] is the position of thread w in the loop  *)
(* body; claimed are the iterations handed out so far.  processed, failed  *)
(* and order record which blocks went through process_block, which of     *)
(* them failed, and the order in which the slots were written.             *)
(***************************************************************************)
VARIABLES variant, input_sequence, errors_per_block, num_threads,
          blocks, decoded_blocks, block_stats, all_blocks_processed,
          output_sequence, ret, result, ppc, worker, claimed,
          processed, failed, order, run, previous

pipeVars == <<variant, input_sequence, errors_per_block, num_threads,
              blocks, decoded_blocks, block_stats, all_blocks_processed,
              output_sequence, ret, result, ppc, worker, claimed,
              processed, failed, order, run, previous>>

(***************************************************************************)
(* State outside the pipelines.  config and instance: the template         *)
(* arguments of a dna_storage instantiation and how far it got             *)
(* ("template", "rejected", "accepted", "constructed").  mapped_symbols    *)
(* and mapped_dna: the results of dna_to_symbols and symbols_to_dna called *)
(* on their own.  input_buffer and output_buffer: the device memory of     *)
(* processParallel.  decoder_block: the 15 symbols decode stores in the    *)
(* block it hands to the Reed-Solomon decoder, followed in SpecBytes.      *)
(***************************************************************************)
VARIABLES config, instance, mapped_symbols, mapped_dna, input_buffer, output_buffer,
          decoder_block

extVars ==
    <<config, instance, mapped_symbols, mapped_dna, input_buffer, output_buffer,
      decoder_block>>

vars == <<codecVars, pipeVars, extVars>>

NoConfig == [CodeLength |-> 0, FecLength |-> 0, DataLength |-> 0]

ExtIdle ==
    /\ config = NoConfig
    /\ instance = "none"
    /\ mapped_symbols = <<>>
    /\ mapped_dna = <<>>
    /\ input_buffer = <<>>
    /\ output_buffer = <<>>
    /\ decoder_block = <<>>

IdleWorker == [pc |-> "idle", i |-> 0, decoded_block |-> <<>>]

NoResult == [total_blocks |-> 0, total_errors_introduced |-> 0, total_errors_corrected |-> 0]

PipeIdle ==
    /\ variant = "none"
    /\ input_sequence = <<>>
    /\ errors_per_block = 0
    /\ num_threads = 0
    /\ blocks = <<>>
    /\ decoded_blocks = <<>>
    /\ block_stats = <<>>
    /\ all_blocks_processed = TRUE
    /\ output_sequence = <<>>
    /\ ret = "none"
    /\ result = NoResult
    /\ ppc = "idle"
    /\ worker = <<>>
    /\ claimed = {}
    /\ processed = {}
    /\ failed = {}
    /\ order = <<>>
    /\ run = 0
    /\ previous = <<>>

CodecIdle ==
    /\ original = <<>>
    /\ encoded_dna = <<>>
    /\ ecc = <<>>
    /\ corrupted = <<>>
    /\ received_ecc = <<>>
    /\ corrected = <<>>
    /\ rs_block = <<>>
    /\ status = "none"
    /\ what = ""
    /\ cpc = "idle"

StrSeq(s) ==
    CASE s = "ACGTACGTACG" -> <<"A", "C", "G", "T", "A", "C", "G", "T", "A", "C", "G">>
      [] s = "GATTACAGATT" -> <<"G", "A", "T", "T", "A", "C", "A", "G", "A", "T", "T">>
      [] s = "CCACAACACCA" -> <<"C", "C", "A", "C", "A", "A", "C", "A", "C", "C", "A">>
      [] s = "AAGTAGGTACG" -> <<"A", "A", "G", "T", "A", "G", "G", "T", "A", "C", "G">>
      [] OTHER -> <<>>

Genome ==
    <<"A", "C", "G", "T", "A", "C", "G", "T", "A", "C", "G",
      "G", "A", "T", "T", "A", "C", "A", "G", "A", "T", "T",
      "C", "C", "A", "C", "A", "A", "C", "A", "C", "C", "A">>

TestBlocks == {StrSeq("ACGTACGTACG"), StrSeq("GATTACAGATT"), StrSeq("CCACAACACCA")}

NumDiff(s, t) == Cardinality({i \in 1..Len(s) : i > Len(t) \/ s[i] # t[i]})

CodecInit ==
    /\ original \in TestBlocks
    /\ encoded_dna = <<>>
    /\ ecc = <<>>
    /\ corrupted = <<>>
    /\ received_ecc = <<>>
    /\ corrected = <<>>
    /\ rs_block = <<>>
    /\ status = "none"
    /\ what = ""
    /\ cpc = "start"
    /\ PipeIdle
    /\ ExtIdle

RunEncode ==
    /\ cpc = "start"
    /\ \E r \in {encode(original)} :
           /\ r.status = "ok"
           /\ encoded_dna' = r.dna
           /\ ecc' = r.ecc
           /\ corrupted' = r.dna
           /\ received_ecc' = r.ecc
    /\ cpc' = "encoded"
    /\ UNCHANGED <<original, corrected, rs_block, status, what, pipeVars, extVars>>

Substitute ==
    /\ cpc = "encoded"
    /\ NumDiff(corrupted, encoded_dna) < MaxSubst
    /\ \E p \in 1..DataLength, c \in {"A", "C", "G", "T"} :
          /\ corrupted[p] = encoded_dna[p]
          /\ c # corrupted[p]
          /\ corrupted' = [corrupted EXCEPT ![p] = c]
    /\ UNCHANGED <<original, encoded_dna, ecc, received_ecc, corrected, rs_block, status,
                   what, cpc, pipeVars, extVars>>

RunDecode ==
    /\ cpc = "encoded"
    /\ \E r \in {decode(corrupted, received_ecc)} :
           /\ status' = r.status
           /\ what' = r.what
           /\ corrected' = r.dna
           /\ rs_block' = r.block
    /\ cpc' = "decoded"
    /\ UNCHANGED <<original, encoded_dna, ecc, corrupted, received_ecc, pipeVars, extVars>>

CodecNext == RunEncode \/ Substitute \/ RunDecode

SpecCodec == CodecInit /\ [][CodecNext]_vars

(***************************************************************************)
(* Corruption of any of the 15 symbols handed to decode: data bases are    *)
(* replaced by another base, ecc bytes by another value of 0..15.          *)
(***************************************************************************)
SymbolErrors == NumDiff(corrupted, encoded_dna) + NumDiff(received_ecc, ecc)

SymbolBlocks == {StrSeq("ACGTACGTACG")}

SymbolInit ==
    /\ original \in SymbolBlocks
    /\ encoded_dna = <<>>
    /\ ecc = <<>>
    /\ corrupted = <<>>
    /\ received_ecc = <<>>
    /\ corrected = <<>>
    /\ rs_block = <<>>
    /\ status = "none"
    /\ what = ""
    /\ cpc = "start"
    /\ PipeIdle
    /\ ExtIdle

SubstituteBase ==
    /\ cpc = "encoded"
    /\ SymbolErrors < MaxSymbolErrors
    /\ \E p \in 1..DataLength, c \in {"A", "C", "G", "T"} :
          /\ corrupted[p] = encoded_dna[p]
          /\ c # corrupted[p]
          /\ corrupted' = [corrupted EXCEPT ![p] = c]
    /\ UNCHANGED <<original, encoded_dna, ecc, received_ecc, corrected, rs_block, status,
                   what, cpc, pipeVars, extVars>>

SubstituteEcc ==
    /\ cpc = "encoded"
    /\ SymbolErrors < MaxSymbolErrors
    /\ \E p \in 1..FecLength, v \in 0..FieldSize :
          /\ received_ecc[p] = ecc[p]
          /\ v # received_ecc[p]
          /\ received_ecc' = [received_ecc EXCEPT ![p] = v]
    /\ UNCHANGED <<original, encoded_dna, ecc, corrupted, corrected, rs_block, status,
                   what, cpc, pipeVars, extVars>>

SymbolNext == RunEncode \/ SubstituteBase \/ SubstituteEcc \/ RunDecode

SpecSymbol == SymbolInit /\ [][SymbolNext]_vars

(***************************************************************************)
(* Single calls of encode and of decode on arbitrary arguments: strings of *)
(* several lengths in upper, lower and mixed case, with and without a      *)
(* character outside the alphabet, and ecc vectors of several sizes.       *)
(***************************************************************************)
ApiLengths == {0, 1, 10, 11, 12}

InvalidChars == {"N", "n", "U", "-"}

tolower(c) ==
    CASE c = "A" -> "a"
      [] c = "C" -> "c"
      [] c = "G" -> "g"
      [] c = "T" -> "t"
      [] OTHER -> c

LetterCase(s, k) ==
    [i \in 1..Len(s) |->
        IF k = "lower" \/ (k = "mixed" /\ i % 2 = 1) THEN tolower(s[i]) ELSE s[i]]

ApiValidInputs ==
    {LetterCase(SubSeq(Genome, 1, n), k) :
        <<n, k>> \in ApiLengths \X {"upper", "lower", "mixed"}}

ApiInputs ==
    ApiValidInputs
        \cup {[x[1] EXCEPT ![x[2]] = x[3]] :
                 x \in {y \in ApiValidInputs \X (1..(DataLength + 1)) \X InvalidChars :
                           y[2] \in {1, Len(y[1])}}}

ApiEccs == {<<>>, <<9, 2, 5>>, <<9, 2, 5, 9>>, <<9, 2, 5, 9, 0>>}

ApiInit ==
    /\ original \in ApiInputs
    /\ encoded_dna = <<>>
    /\ ecc = <<>>
    /\ corrupted = <<>>
    /\ received_ecc = <<>>
    /\ corrected = <<>>
    /\ rs_block = <<>>
    /\ status = "none"
    /\ what = ""
    /\ cpc = "call"
    /\ PipeIdle
    /\ ExtIdle

CallEncode ==
    /\ cpc = "call"
    /\ \E r \in {encode(original)} :
           /\ status' = r.status
           /\ what' = r.what
           /\ encoded_dna' = r.dna
           /\ ecc' = r.ecc
    /\ cpc' = "encode_returned"
    /\ UNCHANGED <<original, corrupted, received_ecc, corrected, rs_block, pipeVars, extVars>>

CallDecode ==
    /\ cpc = "call"
    /\ \E e \in ApiEccs :
       \E r \in {decode(original, e)} :
           /\ corrupted' = original
           /\ received_ecc' = e
           /\ status' = r.status
           /\ what' = r.what
           /\ corrected' = r.dna
           /\ rs_block' = r.block
    /\ cpc' = "decode_returned"
    /\ UNCHANGED <<original, encoded_dna, ecc, pipeVars, extVars>>

ApiNext == CallEncode \/ CallDecode

SpecApi == ApiInit /\ [][ApiNext]_vars

(***************************************************************************)
(* The sequence pipelines.                                                 *)
(***************************************************************************)
SeqLengths == {0, 1, 5, 11, 12, 22, 23}

InvalidPositions == {1, 12}

Inputs ==
    {SubSeq(Genome, 1, n) : n \in SeqLengths}
        \cup {[SubSeq(Genome, 1, n) EXCEPT ![p] = "N"] :
                 <<n, p>> \in {x \in SeqLengths \X InvalidPositions : x[2] <= x[1]}}
        \cup {[i \in 1..n |-> IF i \in InvalidPositions THEN "N" ELSE Genome[i]] :
                 n \in {m \in SeqLengths : \A p \in InvalidPositions : p <= m}}

(***************************************************************************)
(* The blocks the pipelines hand to process_block, and the results of      *)
(* process_block on each of them, computed once.                           *)
(***************************************************************************)
InputBlocks ==
    UNION {{pad_block(split_into_blocks(s, BLOCK_SIZE)[k], BLOCK_SIZE) :
               k \in 1..Len(split_into_blocks(s, BLOCK_SIZE))} : s \in Inputs}

process_block_results ==
    [b \in InputBlocks |-> [e \in 0..MaxErrorsPerBlock |-> process_block(b, e)]]

bench_process_block_results ==
    [b \in InputBlocks |-> [e \in 0..MaxErrorsPerBlock |-> bench_process_block(b, e)]]

ValidSequence(s) == \A i \in 1..Len(s) : s[i] \in {"A", "C", "G", "T"}

PipeInit ==
    /\ CodecIdle
    /\ ExtIdle
    /\ variant \in {"parallel", "sequential", "benchmark"}
    /\ input_sequence \in Inputs
    /\ errors_per_block \in 0..MaxErrorsPerBlock
    /\ num_threads \in 1..MaxThreads
    /\ variant = "sequential" => num_threads = 1
    /\ blocks = <<>>
    /\ decoded_blocks = <<>>
    /\ block_stats = <<>>
    /\ all_blocks_processed = TRUE
    /\ output_sequence = <<>>
    /\ ret = "none"
    /\ result = NoResult
    /\ ppc = "call"
    /\ worker = <<>>
    /\ claimed = {}
    /\ processed = {}
    /\ failed = {}
    /\ order = <<>>
    /\ run = 1
    /\ previous = <<>>

PadLast(bs) ==
    IF Len(bs) > 0 /\ Len(bs[Len(bs)]) < BLOCK_SIZE
    THEN [bs EXCEPT ![Len(bs)] = pad_block(bs[Len(bs)], BLOCK_SIZE)]
    ELSE bs

Split ==
    /\ ppc = "call"
    /\ \E bs \in {split_into_blocks(input_sequence, BLOCK_SIZE)} :
          /\ blocks' = IF variant = "benchmark" THEN PadLast(bs) ELSE bs
          /\ decoded_blocks' = [k \in 1..Len(bs) |-> <<>>]
          /\ block_stats' = IF variant = "benchmark"
                            THEN [k \in 1..Len(bs) |-> NoStats] ELSE <<>>
          /\ result' = IF variant = "benchmark"
                       THEN [NoResult EXCEPT !.total_blocks = Len(bs)] ELSE NoResult
    /\ all_blocks_processed' = TRUE
    /\ worker' = [w \in 1..num_threads |-> IdleWorker]
    /\ ppc' = "loop"
    /\ UNCHANGED <<codecVars, extVars, variant, input_sequence, errors_per_block, num_threads,
                   output_sequence, ret, claimed, processed, failed, order, run, previous>>

IsLastBlock(i) == i = Len(blocks)

OriginalBlock(i) ==
    IF IsLastBlock(i) /\ Len(blocks[i]) < BLOCK_SIZE
    THEN pad_block(blocks[i], BLOCK_SIZE)
    ELSE blocks[i]

Unpadded(i, decoded_block) ==
    IF IsLastBlock(i) /\ Len(blocks[i]) < BLOCK_SIZE
    THEN remove_padding(decoded_block, Len(blocks[i]))
    ELSE decoded_block

store_block_push_back(slots, i, decoded_block) ==
    [slots EXCEPT ![CHOOSE k \in 1..Len(slots) :
                       slots[k] = <<>> /\ \A j \in 1..(k - 1) : slots[j] # <<>>] = decoded_block]

store_block(slots, i, decoded_block) == [slots EXCEPT ![i] = decoded_block]

assemble_output_partial(all_processed, slots) == Concat(slots, 1)

assemble_output(all_processed, slots) ==
    IF all_processed THEN Concat(slots, 1) ELSE <<>>

TakeIteration(w) ==
    /\ ppc = "loop"
    /\ variant \in {"parallel", "benchmark", "large", "blocks"}
    /\ worker[w].pc = "idle"
    /\ \E i \in (1..Len(blocks)) \ claimed :
          /\ worker' = [worker EXCEPT ![w] = [IdleWorker EXCEPT !.pc = "body", !.i = i]]
          /\ claimed' = claimed \cup {i}
    /\ UNCHANGED <<codecVars, extVars, variant, input_sequence, errors_per_block, num_threads,
                   blocks, decoded_blocks, block_stats, all_blocks_processed,
                   output_sequence, ret, result, ppc, processed, failed, order, run,
                   previous>>

ProcessBlock(w) ==
    /\ ppc = "loop"
    /\ variant = "parallel"
    /\ worker[w].pc = "body"
    /\ \E r \in process_block_results[OriginalBlock(worker[w].i)][errors_per_block] :
          /\ worker' = [worker EXCEPT ![w].pc = IF r.success THEN "store" ELSE "critical",
                                      ![w].decoded_block = r.decoded_sequence]
          /\ failed' = IF r.success THEN failed ELSE failed \cup {worker[w].i}
    /\ processed' = processed \cup {worker[w].i}
    /\ UNCHANGED <<codecVars, extVars, variant, input_sequence, errors_per_block, num_threads,
                   blocks, decoded_blocks, block_stats, all_blocks_processed,
                   output_sequence, ret, result, ppc, claimed, order, run, previous>>

critical_section_unguarded(workers) == TRUE

critical_section_free(workers) ==
    \A v \in DOMAIN workers : workers[v].pc # "in_critical"

EnterCritical(w) ==
    /\ ppc = "loop"
    /\ worker[w].pc = "critical"
    /\ critical_section_free(worker)
    /\ worker' = [worker EXCEPT ![w].pc = "in_critical"]
    /\ UNCHANGED <<codecVars, extVars, variant, input_sequence, errors_per_block, num_threads,
                   blocks, decoded_blocks, block_stats, all_blocks_processed,
                   output_sequence, ret, result, ppc, claimed, processed, failed, order,
                   run, previous>>

Critical(w) ==
    /\ ppc = "loop"
    /\ worker[w].pc = "in_critical"
    /\ all_blocks_processed' = FALSE
    /\ worker' = [worker EXCEPT ![w] = IdleWorker]
    /\ UNCHANGED <<codecVars, extVars, variant, input_sequence, errors_per_block, num_threads,
                   blocks, decoded_blocks, block_stats, output_sequence, ret, result,
                   ppc, claimed, processed, failed, order, run, previous>>

Store(w) ==
    /\ ppc = "loop"
    /\ worker[w].pc = "store"
    /\ decoded_blocks' = store_block(decoded_blocks, worker[w].i,
                                     Unpadded(worker[w].i, worker[w].decoded_block))
    /\ order' = Append(order, worker[w].i)
    /\ worker' = [worker EXCEPT ![w] = IdleWorker]
    /\ UNCHANGED <<codecVars, extVars, variant, input_sequence, errors_per_block, num_threads,
                   blocks, block_stats, all_blocks_processed, output_sequence, ret,
                   result, ppc, claimed, processed, failed, run, previous>>

SeqIteration ==
    /\ ppc = "loop"
    /\ variant = "sequential"
    /\ Cardinality(claimed) < Len(blocks)
    /\ \E i \in {Cardinality(claimed) + 1} :
       \E r \in process_block_results[OriginalBlock(i)][errors_per_block] :
          /\ claimed' = claimed \cup {i}
          /\ processed' = processed \cup {i}
          /\ IF r.success
             THEN /\ decoded_blocks' = store_block(decoded_blocks, i,
                                                   Unpadded(i, r.decoded_sequence))
                  /\ order' = Append(order, i)
                  /\ UNCHANGED <<all_blocks_processed, failed, ppc>>
             ELSE /\ all_blocks_processed' = FALSE
                  /\ failed' = failed \cup {i}
                  /\ ppc' = "joined"
                  /\ UNCHANGED <<decoded_blocks, order>>
    /\ UNCHANGED <<codecVars, extVars, variant, input_sequence, errors_per_block, num_threads,
                   blocks, block_stats, output_sequence, ret, result, worker, run,
                   previous>>

BenchIteration(w) ==
    /\ ppc = "loop"
    /\ variant = "benchmark"
    /\ worker[w].pc = "body"
    /\ \E r \in bench_process_block_results[blocks[worker[w].i]][errors_per_block] :
          /\ decoded_blocks' = store_block(decoded_blocks, worker[w].i, r.decoded_sequence)
          /\ block_stats' = [block_stats EXCEPT ![worker[w].i] = r.stats]
          /\ failed' = IF r.threw THEN failed \cup {worker[w].i} ELSE failed
    /\ processed' = processed \cup {worker[w].i}
    /\ order' = Append(order, worker[w].i)
    /\ worker' = [worker EXCEPT ![w] = IdleWorker]
    /\ UNCHANGED <<codecVars, extVars, variant, input_sequence, errors_per_block, num_threads,
                   blocks, all_blocks_processed, output_sequence, ret, result, ppc,
                   claimed, run, previous>>

Join ==
    /\ ppc = "loop"
    /\ claimed = 1..Len(blocks)
    /\ \A w \in DOMAIN worker : worker[w].pc = "idle"
    /\ ppc' = "joined"
    /\ UNCHANGED <<codecVars, extVars, variant, input_sequence, errors_per_block, num_threads,
                   blocks, decoded_blocks, block_stats, all_blocks_processed,
                   output_sequence, ret, result, worker, claimed, processed, failed,
                   order, run, previous>>

RECURSIVE SumStats(_, _, _)
SumStats(stats, field, k) ==
    IF k > Len(stats) THEN 0
    ELSE stats[k][field] + SumStats(stats, field, k + 1)

LastBlockSize ==
    IF Len(input_sequence) % BLOCK_SIZE = 0 THEN BLOCK_SIZE
    ELSE Len(input_sequence) % BLOCK_SIZE

combine_blocks(slots) ==
    Concat([k \in 1..Len(slots) |->
               IF k = Len(slots)
               THEN SubSeq(slots[k], 1, Min(LastBlockSize, Len(slots[k])))
               ELSE slots[k]], 1)

Finish ==
    /\ ppc = "joined"
    /\ variant \in {"parallel", "sequential", "benchmark"}
    /\ ppc' = "done"
    /\ IF variant = "benchmark"
       THEN /\ result' = [result EXCEPT
                             !.total_errors_introduced =
                                 SumStats(block_stats, "errors_introduced", 1),
                             !.total_errors_corrected =
                                 SumStats(block_stats, "errors_corrected", 1)]
            /\ output_sequence' = combine_blocks(decoded_blocks)
            /\ ret' = "result"
       ELSE /\ output_sequence' = assemble_output(all_blocks_processed, decoded_blocks)
            /\ ret' = all_blocks_processed
            /\ UNCHANGED result
    /\ UNCHANGED <<codecVars, extVars, variant, input_sequence, errors_per_block, num_threads,
                   blocks, decoded_blocks, block_stats, all_blocks_processed, worker,
                   claimed, processed, failed, order, run, previous>>

NextRun ==
    /\ ppc = "done"
    /\ variant = "benchmark"
    /\ run = 1
    /\ previous' = <<[output_sequence |-> output_sequence, result |-> result]>>
    /\ run' = run + 1
    /\ num_threads' \in 1..MaxThreads
    /\ blocks' = <<>>
    /\ decoded_blocks' = <<>>
    /\ block_stats' = <<>>
    /\ result' = NoResult
    /\ ret' = "none"
    /\ ppc' = "call"
    /\ worker' = <<>>
    /\ claimed' = {}
    /\ processed' = {}
    /\ failed' = {}
    /\ order' = <<>>
    /\ UNCHANGED <<codecVars, extVars, variant, input_sequence, errors_per_block,
                   all_blocks_processed, output_sequence>>

(***************************************************************************)
(* run_test_case: the sequential function has returned, and the parallel   *)
(* function is called on the same sequence and errors_per_block; previous  *)
(* keeps success_seq and seq_sequential.                                   *)
(***************************************************************************)
NextFunction ==
    /\ ppc = "done"
    /\ variant = "sequential"
    /\ run = 1
    /\ previous' = <<[output_sequence |-> output_sequence, ret |-> ret]>>
    /\ variant' = "parallel"
    /\ run' = run + 1
    /\ num_threads' \in 1..MaxThreads
    /\ blocks' = <<>>
    /\ decoded_blocks' = <<>>
    /\ output_sequence' = <<>>
    /\ ret' = "none"
    /\ ppc' = "call"
    /\ worker' = <<>>
    /\ claimed' = {}
    /\ processed' = {}
    /\ failed' = {}
    /\ order' = <<>>
    /\ UNCHANGED <<codecVars, extVars, input_sequence, errors_per_block, block_stats,
                   all_blocks_processed, result>>

PipeNext ==
    \/ Split
    \/ \E w \in DOMAIN worker : TakeIteration(w)
    \/ \E w \in DOMAIN worker : ProcessBlock(w)
    \/ \E w \in DOMAIN worker : EnterCritical(w)
    \/ \E w \in DOMAIN worker : Critical(w)
    \/ \E w \in DOMAIN worker : Store(w)
    \/ \E w \in DOMAIN worker : BenchIteration(w)
    \/ SeqIteration
    \/ Join
    \/ Finish
    \/ NextRun
    \/ NextFunction

SpecPipe == PipeInit /\ [][PipeNext]_vars

(***************************************************************************)
(* process_large_dna: the input is padded with 'N' to a multiple of 11,    *)
(* and every block is encoded, given two substitutions when inject_errors  *)
(* is set, and decoded.  encode is called outside the try block, so an     *)
(* exception it throws leaves the loop (ppc = "escaped"); an exception of  *)
(* decode is caught and reported.  errors_per_block is 2 when              *)
(* inject_errors is set and 0 otherwise; result.total_errors_introduced is *)
(* total_errors_injected.                                                  *)
(***************************************************************************)
LargeLengths == {0, 1, 11, 12, 22, 23, 33}

inject_errors == errors_per_block > 0

add_errors(dna_block) ==
    IF Len(dna_block) # BLOCK_SIZE THEN {dna_block}
    ELSE {[dna_block EXCEPT ![x[1]] = x[3], ![x[2]] = x[4]] :
             x \in {y \in RngPositions \X RngPositions
                          \X {"A", "C", "G", "T"} \X {"A", "C", "G", "T"} :
                       /\ y[1] # y[2]
                       /\ y[3] # dna_block[y[1]]
                       /\ y[4] # dna_block[y[2]]}}

padded_input(input_dna) ==
    input_dna \o [i \in 1..((((Len(input_dna) + BLOCK_SIZE - 1) \div BLOCK_SIZE) * BLOCK_SIZE)
                               - Len(input_dna)) |-> "N"]

count_corrected(original_block, decoded) ==
    Cardinality({j \in 1..BLOCK_SIZE :
                    original_block[j] # "N" /\ decoded[j] # original_block[j]})

LargeInit ==
    /\ CodecIdle
    /\ ExtIdle
    /\ variant = "large"
    /\ input_sequence \in {SubSeq(Genome, 1, n) : n \in LargeLengths}
    /\ errors_per_block \in {0, 2}
    /\ num_threads \in 1..MaxThreads
    /\ blocks = <<>>
    /\ decoded_blocks = <<>>
    /\ block_stats = <<>>
    /\ all_blocks_processed = TRUE
    /\ output_sequence = <<>>
    /\ ret = "none"
    /\ result = NoResult
    /\ ppc = "call"
    /\ worker = <<>>
    /\ claimed = {}
    /\ processed = {}
    /\ failed = {}
    /\ order = <<>>
    /\ run = 1
    /\ previous = <<>>

LargePad ==
    /\ ppc = "call"
    /\ variant = "large"
    /\ blocks' = split_into_blocks(padded_input(input_sequence), BLOCK_SIZE)
    /\ worker' = [w \in 1..num_threads |-> IdleWorker]
    /\ ppc' = "loop"
    /\ UNCHANGED <<codecVars, extVars, variant, input_sequence, errors_per_block, num_threads,
                   decoded_blocks, block_stats, all_blocks_processed, output_sequence,
                   ret, result, claimed, processed, failed, order, run, previous>>

LargeEncode(w) ==
    /\ ppc = "loop"
    /\ variant = "large"
    /\ worker[w].pc = "body"
    /\ \E r \in {encode(blocks[worker[w].i])} :
          IF r.status # "ok"
          THEN /\ ppc' = "escaped"
               /\ ret' = r.status
               /\ UNCHANGED worker
          ELSE /\ worker' = [worker EXCEPT ![w] =
                                [pc |-> IF inject_errors THEN "inject" ELSE "decode",
                                 i |-> worker[w].i,
                                 decoded_block |-> <<>>,
                                 encoded_dna |-> r.dna,
                                 ecc |-> r.ecc]]
               /\ UNCHANGED <<ppc, ret>>
    /\ UNCHANGED <<codecVars, extVars, variant, input_sequence, errors_per_block, num_threads,
                   blocks, decoded_blocks, block_stats, all_blocks_processed,
                   output_sequence, result, claimed, processed, failed, order, run,
                   previous>>

(***************************************************************************)
(* add_errors draws from function-static generators (and std::rand), one   *)
(* state for all threads, without synchronisation.  A worker with          *)
(* pc = "add_errors" is inside the function; the string it leaves with is  *)
(* any string with two distinct positions changed to another base.         *)
(***************************************************************************)
LargeEnterAddErrors(w) ==
    /\ ppc = "loop"
    /\ variant = "large"
    /\ worker[w].pc = "inject"
    /\ worker' = [worker EXCEPT ![w].pc = "add_errors"]
    /\ UNCHANGED <<codecVars, extVars, variant, input_sequence, errors_per_block, num_threads,
                   blocks, decoded_blocks, block_stats, all_blocks_processed,
                   output_sequence, ret, result, ppc, claimed, processed, failed, order,
                   run, previous>>

LargeInject(w) ==
    /\ ppc = "loop"
    /\ variant = "large"
    /\ worker[w].pc = "add_errors"
    /\ \E c \in add_errors(worker[w].encoded_dna) :
          worker' = [worker EXCEPT ![w].pc = "decode", ![w].encoded_dna = c]
    /\ result' = [result EXCEPT !.total_errors_introduced = @ + 2]
    /\ UNCHANGED <<codecVars, extVars, variant, input_sequence, errors_per_block, num_threads,
                   blocks, decoded_blocks, block_stats, all_blocks_processed,
                   output_sequence, ret, ppc, claimed, processed, failed, order, run,
                   previous>>

LargeDecode(w) ==
    /\ ppc = "loop"
    /\ variant = "large"
    /\ worker[w].pc = "decode"
    /\ \E r \in {decode(worker[w].encoded_dna, worker[w].ecc)} :
          IF r.status = "ok"
          THEN /\ result' = [result EXCEPT
                                !.total_errors_corrected =
                                    @ + count_corrected(blocks[worker[w].i], r.dna),
                                !.total_blocks = @ + 1]
               /\ UNCHANGED failed
          ELSE /\ result' = [result EXCEPT !.total_blocks = @ + 1]
               /\ failed' = failed \cup {worker[w].i}
    /\ processed' = processed \cup {worker[w].i}
    /\ worker' = [worker EXCEPT ![w] = IdleWorker]
    /\ UNCHANGED <<codecVars, extVars, variant, input_sequence, errors_per_block, num_threads,
                   blocks, decoded_blocks, block_stats, all_blocks_processed,
                   output_sequence, ret, ppc, claimed, order, run, previous>>

LargeSummary ==
    /\ ppc = "joined"
    /\ variant = "large"
    /\ ret' = "void"
    /\ ppc' = "done"
    /\ UNCHANGED <<codecVars, extVars, variant, input_sequence, errors_per_block, num_threads,
                   blocks, decoded_blocks, block_stats, all_blocks_processed,
                   output_sequence, result, worker, claimed, processed, failed, order,
                   run, previous>>

LargeNext ==
    \/ LargePad
    \/ \E w \in DOMAIN worker : TakeIteration(w)
    \/ \E w \in DOMAIN worker : LargeEncode(w)
    \/ \E w \in DOMAIN worker : LargeEnterAddErrors(w)
    \/ \E w \in DOMAIN worker : LargeInject(w)
    \/ \E w \in DOMAIN worker : LargeDecode(w)
    \/ Join
    \/ LargeSummary

SpecLarge == LargeInit /\ [][LargeNext]_vars

(***************************************************************************)
(* Properties of the single-block codec.                                   *)
(***************************************************************************)
Substitutions == NumDiff(corrupted, encoded_dna)

ReceivedBlock == decode_block(dna_to_symbols(corrupted), received_ecc)

SyndromesZero(block) ==
    \A j \in 0..(FecLength - 1) : compute_syndrome(load_message(block))[j] = 0

\* C1: a block with at most t = 2 substituted data bases, decoded with the
\* ecc returned by encode, is returned exactly as the original block.
C1_CorrectionUpToBound ==
    (cpc = "decoded" /\ Substitutions <= FecLength \div 2)
        => (status = "ok" /\ corrected = original)

C1_Witness ==
    /\ cpc = "decoded"
    /\ original = StrSeq("ACGTACGTACG")
    /\ corrupted = StrSeq("AAGTAGGTACG")
    /\ Substitutions = 2
    /\ corrected = original

\* C2: decoding an encoded block that was not altered returns the block, all
\* four syndromes of the received word are zero and no symbol is changed.
C2_RoundTripNoErrors ==
    (cpc = "decoded" /\ corrupted = encoded_dna)
        => /\ status = "ok"
           /\ corrected = original
           /\ SyndromesZero(ReceivedBlock)
           /\ rs_block = ReceivedBlock

C2_Witness ==
    /\ cpc = "decoded"
    /\ corrupted = encoded_dna
    /\ original = StrSeq("GATTACAGATT")
    /\ corrected = original
    /\ rs_block = ReceivedBlock

\* C3: with exactly 3 substituted data bases decode never returns the
\* original block as a success: it throws or returns another string.
C3_NoFalseSuccessAtThreeErrors ==
    (cpc = "decoded" /\ Substitutions = 3)
        => ~(status = "ok" /\ corrected = original)

C3_Witness ==
    /\ cpc = "decoded"
    /\ Substitutions = 3
    /\ original = StrSeq("ACGTACGTACG")
    /\ status = "ok"
    /\ corrected # original

\* C4 as stated: decode throws whenever 3 or more data bases were substituted.
C4_ThrowsBeyondBound ==
    (cpc = "decoded" /\ Substitutions >= 3) => status # "ok"

\* C4 as amended: with 3 or more substituted data bases decode either throws
\* or returns a string that differs from the corrupted input in at most t = 2
\* bases and is not the original block.
C4_ThrowsOrMiscorrects ==
    (cpc = "decoded" /\ Substitutions >= 3)
        => \/ status = "runtime_error"
           \/ /\ status = "ok"
              /\ NumDiff(corrected, corrupted) <= FecLength \div 2
              /\ corrected # original

C4_Witness ==
    /\ cpc = "decoded"
    /\ Substitutions >= 3
    /\ status = "ok"
    /\ NumDiff(corrected, corrupted) = 2
    /\ corrected # original

(***************************************************************************)
(* Properties of single encode and decode calls.                           *)
(***************************************************************************)
HasInvalidChar(s) ==
    \E i \in 1..Len(s) : s[i] \notin {"A", "C", "G", "T", "a", "c", "g", "t"}

Returned == cpc \in {"encode_returned", "decode_returned"}

NoOutput == encoded_dna = <<>> /\ ecc = <<>> /\ corrected = <<>> /\ rs_block = <<>>

\* C11: encode and decode throw std::invalid_argument (the invalid-DNA
\* error) and produce no output for every input holding a character outside
\* A, C, G, T, a, c, g, t, whatever the length of the input and of ecc.
C11_AlphabetValidation ==
    (Returned /\ HasInvalidChar(original))
        => (status = "invalid_argument" /\ what = "Invalid DNA sequence" /\ NoOutput)

C11_Witness ==
    /\ cpc = "decode_returned"
    /\ Len(original) = DataLength + 1
    /\ original[DataLength + 1] = "N"
    /\ ~HasInvalidChar(SubSeq(original, 1, DataLength))
    /\ Len(received_ecc) = FecLength - 1
    /\ status = "invalid_argument"
    /\ what = "Invalid DNA sequence"

\* C12: encode throws when its input is not exactly 11 bases; decode throws
\* when its input is not exactly 11 bases or ecc has not exactly 4 entries;
\* no block is encoded or decoded and nothing is returned.
C12_LengthValidation ==
    /\ (cpc = "encode_returned" /\ Len(original) # DataLength)
           => (status = "invalid_argument" /\ NoOutput)
    /\ (cpc = "decode_returned" /\ (Len(corrupted) # DataLength \/ Len(received_ecc) # FecLength))
           => (status = "invalid_argument" /\ NoOutput)

C12_Witness ==
    /\ cpc = "decode_returned"
    /\ Len(corrupted) = DataLength
    /\ ~HasInvalidChar(corrupted)
    /\ Len(received_ecc) = FecLength + 1
    /\ status = "invalid_argument"
    /\ what = "ECC symbols length"
    /\ NoOutput

\* C13: for a valid 11-base input in any mix of upper and lower case, the
\* DNA returned by encode and the DNA returned by decode hold only the
\* uppercase letters A, C, G, T.
C13_UppercaseOutput ==
    /\ (cpc = "encode_returned" /\ status = "ok") => ValidSequence(encoded_dna)
    /\ (cpc = "decode_returned" /\ status = "ok") => ValidSequence(corrected)

\* C14: encode("ACGTACGTACG") returns the DNA "ACGTACGTACG" and the 4 ecc
\* symbols 09 02 05 09, the block 00 01 02 03 00 01 02 03 00 01 02 09 02 05 09.
C14_ReferenceVector ==
    (cpc # "start" /\ original = StrSeq("ACGTACGTACG"))
        => /\ encoded_dna = StrSeq("ACGTACGTACG")
           /\ ecc = <<9, 2, 5, 9>>
           /\ dna_to_symbols(encoded_dna) \o ecc = <<0, 1, 2, 3, 0, 1, 2, 3, 0, 1, 2, 9, 2, 5, 9>>

C14_Witness ==
    /\ cpc = "encoded"
    /\ original = StrSeq("ACGTACGTACG")
    /\ encoded_dna = original
    /\ ecc = <<9, 2, 5, 9>>

\* C15: encode returns the DNA of the block unchanged, and the block's
\* symbols followed by the 4 returned ecc symbols are a codeword: the word
\* vanishes at a^1, a^2, a^3, a^4, the roots decode uses, so the four
\* syndromes are zero.
C15_SystematicCodeword ==
    cpc # "start"
        => /\ encoded_dna = original
           /\ Len(ecc) = FecLength
           /\ \A j \in 1..FecLength :
                 PolyEval(load_message(dna_to_symbols(original) \o ecc),
                          CodeLength - 1, alpha(j)) = 0
           /\ SyndromesZero(dna_to_symbols(original) \o ecc)

C15_Witness ==
    /\ cpc = "encoded"
    /\ original = StrSeq("GATTACAGATT")
    /\ encoded_dna = original
    /\ Len(ecc) = FecLength
    /\ ecc # <<0, 0, 0, 0>>
    /\ SyndromesZero(dna_to_symbols(original) \o ecc)

\* C16: decode returns the original block for every corruption of at most 2
\* of the 15 symbols, data bases replaced by another base and ecc bytes by
\* another value of 0..15.
C16_CorrectsAnyTwoSymbols ==
    (cpc = "decoded" /\ SymbolErrors <= FecLength \div 2)
        => (status = "ok" /\ corrected = original)

C16_Witness ==
    /\ cpc = "decoded"
    /\ NumDiff(corrupted, encoded_dna) = 1
    /\ NumDiff(received_ecc, ecc) = 1
    /\ received_ecc[FecLength] > 3
    /\ status = "ok"
    /\ corrected = original

(***************************************************************************)
(* Properties of the sequence pipelines.                                   *)
(***************************************************************************)
\* C5: for an input of valid bases the parallel pipeline returns true and an
\* output equal to the input, whatever the order in which the workers
\* complete their blocks.
C5_ParallelOutputEqualsInput ==
    (ppc = "done" /\ variant = "parallel" /\ ValidSequence(input_sequence))
        => (ret = TRUE /\ output_sequence = input_sequence)

C5_Witness ==
    /\ ppc = "done"
    /\ variant = "parallel"
    /\ num_threads = 2
    /\ errors_per_block = 2
    /\ input_sequence = SubSeq(Genome, 1, 23)
    /\ order = <<3, 1, 2>>
    /\ ret = TRUE
    /\ output_sequence = input_sequence

\* C6: with no injected errors, splitting into 11-base blocks, padding the
\* last block, decoding and removing the padding gives back the input, with
\* the same length, in every pipeline.
C6_ChunkRecombineLossless ==
    (ppc = "done" /\ errors_per_block = 0 /\ ValidSequence(input_sequence))
        => (output_sequence = input_sequence /\ Len(output_sequence) = Len(input_sequence))

C6_Witness ==
    /\ ppc = "done"
    /\ errors_per_block = 0
    /\ variant = "parallel"
    /\ input_sequence = SubSeq(Genome, 1, 12)
    /\ Len(blocks[2]) = 1
    /\ output_sequence = input_sequence

\* C7: two runs of the benchmark pipeline on the same input and
\* errors_per_block give the same output and the same totals of errors
\* introduced and corrected.
C7_OrderIndependence ==
    (ppc = "done" /\ variant = "benchmark" /\ run = 2)
        => /\ output_sequence = previous[1].output_sequence
           /\ result.total_errors_introduced = previous[1].result.total_errors_introduced
           /\ result.total_errors_corrected = previous[1].result.total_errors_corrected

\* C8: when process_block fails for a block, every other block is still
\* processed, in the sequential and in the parallel pipeline.
C8_FailureIsolation ==
    (ppc = "done" /\ variant \in {"sequential", "parallel"})
        => processed = 1..Len(blocks)

\* C9: the success flag starts true and is only ever set to false; the call
\* returns it, it is true exactly when no block failed, and a call that
\* returns false returns an empty output_sequence.
C9_FlagState ==
    variant \in {"parallel", "sequential"}
        => /\ ppc = "loop" /\ failed = {} => all_blocks_processed
           /\ ppc = "done" =>
                 /\ ret = all_blocks_processed
                 /\ (ret = TRUE) <=> (failed = {})
                 /\ ret = FALSE => output_sequence = <<>>

C9_SuccessIffNoBlockFailed ==
    /\ [](C9_FlagState)
    /\ [][ppc # "call" => (all_blocks_processed' => all_blocks_processed)]_vars

C9_Witness ==
    /\ ppc = "done"
    /\ variant = "parallel"
    /\ failed = {1}
    /\ Len(decoded_blocks) = 2
    /\ decoded_blocks[2] # <<>>
    /\ ret = FALSE
    /\ output_sequence = <<>>

\* C17: on the same input sequence and errors_per_block the sequential and
\* the parallel function return the same success flag and the same
\* output_sequence (same_output of run_test_case).
C17_SequentialParallelEquivalent ==
    (ppc = "done" /\ variant = "parallel" /\ run = 2)
        => /\ ret = previous[1].ret
           /\ output_sequence = previous[1].output_sequence

C17_Witness ==
    /\ ppc = "done"
    /\ variant = "parallel"
    /\ run = 2
    /\ num_threads = 2
    /\ errors_per_block = 2
    /\ order = <<2, 3, 1>>
    /\ ret = TRUE
    /\ previous[1].ret = TRUE
    /\ output_sequence = previous[1].output_sequence
    /\ output_sequence = input_sequence

Writes(i) == Cardinality({k \in 1..Len(order) : order[k] = i})

InCritical == {w \in DOMAIN worker : worker[w].pc = "in_critical"}

\* C18 as stated: in every execution of the parallel loop every slot
\* decoded_blocks[i] is written exactly once.
C18_EverySlotWrittenOnce ==
    (variant = "parallel" /\ ppc = "done") => \A i \in 1..Len(blocks) : Writes(i) = 1

C18_SlotsState ==
    variant = "parallel"
        => /\ \A i \in 1..Len(blocks) : Writes(i) <= 1
           /\ \A v, w \in DOMAIN worker :
                 (v # w /\ worker[v].pc # "idle" /\ worker[w].pc # "idle")
                     => worker[v].i # worker[w].i
           /\ Cardinality(InCritical) <= 1
           /\ ppc \in {"joined", "done"}
                 => \A i \in 1..Len(blocks) : (Writes(i) = 1) <=> (i \notin failed)

C18_SlotsStep ==
    (variant = "parallel" /\ ppc = "loop")
        => /\ \A i \in 1..Len(decoded_blocks) :
                 decoded_blocks'[i] # decoded_blocks[i]
                     => /\ Writes(i) = 0
                        /\ \E w \in DOMAIN worker :
                              /\ worker[w].pc = "store"
                              /\ worker[w].i = i
                              /\ worker'[w] = IdleWorker
           /\ all_blocks_processed' # all_blocks_processed
                 => \E w \in InCritical : worker'[w] = IdleWorker

\* C18 as amended: in the parallel loop every slot decoded_blocks[i] is
\* written at most once, only by the worker that executes iteration i, and
\* exactly once when process_block succeeded for block i (never when it
\* failed); no two workers execute the same iteration;
\* all_blocks_processed is written only by the one worker inside the
\* critical section.
C18_SlotsWrittenByOwnWorker ==
    [](C18_SlotsState) /\ [][C18_SlotsStep]_vars

C18_Witness ==
    /\ variant = "parallel"
    /\ ppc = "loop"
    /\ Len(blocks) = 3
    /\ order = <<3>>
    /\ \E v, w \in DOMAIN worker :
          /\ worker[v].pc = "in_critical"
          /\ worker[w].pc = "critical"

Filler(n) == [j \in 1..n |-> "A"]

\* C20: split_into_blocks(s, 11) returns ceil(len(s)/11) blocks whose
\* concatenation is s, all of 11 bases except the last, which has 1 to 11;
\* only a short last block is padded, on the right, with 'A' to exactly 11
\* bases, and no other block is modified.
C20_SplitAndPad ==
    (ppc # "call" /\ variant \in {"parallel", "sequential", "benchmark"})
        => /\ Len(blocks) = (Len(input_sequence) + 10) \div 11
           /\ \A i \in 1..(Len(blocks) - 1) : Len(blocks[i]) = 11
           /\ IF variant = "benchmark"
              THEN /\ \A i \in 1..Len(blocks) : Len(blocks[i]) = 11
                   /\ Concat(blocks, 1) =
                          input_sequence \o Filler(11 * Len(blocks) - Len(input_sequence))
              ELSE /\ Concat(blocks, 1) = input_sequence
                   /\ Len(blocks) > 0 => Len(blocks[Len(blocks)]) \in 1..11
                   /\ \A i \in 1..Len(blocks) :
                         OriginalBlock(i) = blocks[i] \o Filler(11 - Len(blocks[i]))

C20_Witness ==
    /\ ppc = "loop"
    /\ variant = "parallel"
    /\ Len(input_sequence) = 23
    /\ Len(blocks) = 3
    /\ blocks[3] = <<"C">>
    /\ OriginalBlock(3) = <<"C", "A", "A", "A", "A", "A", "A", "A", "A", "A", "A">>
    /\ OriginalBlock(2) = blocks[2]

(***************************************************************************)
(* Properties of process_large_dna.                                        *)
(***************************************************************************)
\* C10: for every input length no exception leaves the per-block loop of
\* process_large_dna; a block that cannot be encoded or decoded is only
\* reported.
C10_NoExceptionEscapes == variant = "large" => ppc # "escaped"

\* C19: the random generator that corrupts a block is never used by two
\* worker threads at the same time; in process_large_dna the generators of
\* add_errors are shared by all threads, so two workers must never be inside
\* add_errors together.
C19_GeneratorNotShared ==
    variant = "large"
        => Cardinality({w \in DOMAIN worker : worker[w].pc = "add_errors"}) <= 1

(***************************************************************************)
(* dna_to_symbols and symbols_to_dna called on their own: on a string of   *)
(* upper and lower case bases (original) and then on its symbols, or on a  *)
(* vector of symbols 0..3 (rs_block) and then on its string.               *)
(***************************************************************************)
MaxMapLen == 3

MapStrings ==
    UNION {[1..m -> {"A", "C", "G", "T", "a", "c", "g", "t"}] : m \in 0..MaxMapLen}

MapVectors == UNION {[1..m -> 0..3] : m \in 0..MaxMapLen}

MapInit ==
    /\ \/ /\ cpc = "dna_given"
          /\ original \in MapStrings
          /\ rs_block = <<>>
       \/ /\ cpc = "symbols_given"
          /\ original = <<>>
          /\ rs_block \in MapVectors
    /\ encoded_dna = <<>>
    /\ ecc = <<>>
    /\ corrupted = <<>>
    /\ received_ecc = <<>>
    /\ corrected = <<>>
    /\ status = "none"
    /\ what = ""
    /\ PipeIdle
    /\ ExtIdle

CallDnaToSymbols ==
    /\ cpc \in {"dna_given", "dna_returned"}
    /\ \E s \in {IF cpc = "dna_given" THEN original ELSE mapped_dna} :
          IF dna_to_symbols_throws(s)
          THEN /\ status' = "runtime_error"
               /\ what' = "Invalid DNA character"
               /\ cpc' = "thrown"
               /\ UNCHANGED mapped_symbols
          ELSE /\ mapped_symbols' = dna_to_symbols(s)
               /\ cpc' = IF cpc = "dna_given" THEN "symbols_returned" ELSE "symbols_round_trip"
               /\ UNCHANGED <<status, what>>
    /\ UNCHANGED <<original, encoded_dna, ecc, corrupted, received_ecc, corrected, rs_block,
                   mapped_dna, config, instance, input_buffer, output_buffer,
                   decoder_block, pipeVars>>

CallSymbolsToDna ==
    /\ cpc \in {"symbols_given", "symbols_returned"}
    /\ \E v \in {IF cpc = "symbols_given" THEN rs_block ELSE mapped_symbols} :
          IF symbols_to_dna_throws(v)
          THEN /\ status' = "runtime_error"
               /\ what' = "Invalid symbol value"
               /\ cpc' = "thrown"
               /\ UNCHANGED mapped_dna
          ELSE /\ mapped_dna' = symbols_to_dna(v)
               /\ cpc' = IF cpc = "symbols_given" THEN "dna_returned" ELSE "dna_round_trip"
               /\ UNCHANGED <<status, what>>
    /\ UNCHANGED <<original, encoded_dna, ecc, corrupted, received_ecc, corrected, rs_block,
                   mapped_symbols, config, instance, input_buffer, output_buffer,
                   decoder_block, pipeVars>>

MapNext == CallDnaToSymbols \/ CallSymbolsToDna

SpecMap == MapInit /\ [][MapNext]_vars

\* C21: the mapping A<->0, C<->1, G<->2, T<->3 is a bijection: turning a string
\* of upper or lower case bases into symbols and back gives the string in upper
\* case, turning a vector of symbols 0..3 into a string and back gives the
\* vector, and neither conversion throws on these arguments.
C21_MappingBijection ==
    /\ cpc # "thrown"
    /\ cpc = "symbols_returned" =>
           /\ Len(mapped_symbols) = Len(original)
           /\ \A i \in 1..Len(original) :
                  mapped_symbols[i] = CASE toupper(original[i]) = "A" -> 0
                                        [] toupper(original[i]) = "C" -> 1
                                        [] toupper(original[i]) = "G" -> 2
                                        [] toupper(original[i]) = "T" -> 3
    /\ cpc = "dna_round_trip" =>
           mapped_dna = [i \in 1..Len(original) |-> toupper(original[i])]
    /\ cpc = "symbols_round_trip" => mapped_symbols = rs_block

C21_Witness ==
    /\ cpc = "dna_round_trip"
    /\ original = <<"a", "T", "g">>
    /\ mapped_symbols = <<0, 3, 2>>
    /\ mapped_dna = <<"A", "T", "G">>

(***************************************************************************)
(* Instantiations dna_storage<CodeLength, FecLength, DataLength>.  The     *)
(* three static assertions are evaluated on size_t values; the difference  *)
(* CodeLength - FecLength only matters when CodeLength > FecLength holds,  *)
(* so it never wraps in an accepted instantiation.  The constructor builds *)
(* GF(2^4) and a generator polynomial with the roots alpha^0..alpha^3,     *)
(* which succeeds for every template argument.                             *)
(*                                                                         *)
(* encode copies DataLength symbols into a block<15, 4>, zeroes the        *)
(* entries DataLength..CodeLength-1, runs an encoder<15, 4> on it and      *)
(* returns the entries DataLength..CodeLength-1.  The encoder reads the    *)
(* first 11 entries and writes the last 4, so with CodeLength >= 11 every  *)
(* entry it reads has been written.  It is modelled for FecLength = 4,     *)
(* where the generator polynomial handed to it has the degree it expects.  *)
(***************************************************************************)
ConfigCodeLengths == {0, 4, 13, 14, 15, 16}

ConfigFecLengths == {0, 2, 4}

ConfigDataLengths == {0, 4, 9, 10, 11, 13, 15, 16}

Configs ==
    [CodeLength : ConfigCodeLengths, FecLength : ConfigFecLengths,
     DataLength : ConfigDataLengths]

static_assert_ok(c) ==
    /\ c.CodeLength > c.FecLength
    /\ c.CodeLength - c.FecLength = c.DataLength
    /\ c.CodeLength <= 15

template_block(c, symbols) ==
    [i \in 1..CodeLength |-> IF i <= c.DataLength THEN symbols[i] ELSE 0]

template_encode(c, dna_sequence) ==
    IF ~validate_dna(dna_sequence)
    THEN [status |-> "invalid_argument", what |-> "Invalid DNA sequence",
          dna |-> <<>>, ecc |-> <<>>]
    ELSE IF Len(dna_sequence) # c.DataLength
    THEN [status |-> "invalid_argument", what |-> "DNA sequence length",
          dna |-> <<>>, ecc |-> <<>>]
    ELSE IF dna_to_symbols_throws(dna_sequence)
    THEN [status |-> "runtime_error", what |-> "Invalid DNA character",
          dna |-> <<>>, ecc |-> <<>>]
    ELSE With(LAMBDA block :
                  [status |-> "ok",
                   what |-> "",
                   dna |-> dna_sequence,
                   ecc |-> [i \in 1..c.FecLength |-> block[c.DataLength + i]]],
              rs_encoder_encode(template_block(c, dna_to_symbols(dna_sequence))))

ConfigInit ==
    /\ config \in Configs
    /\ instance = "template"
    /\ original \in {SubSeq(Genome, first, first + config.DataLength - 1) : first \in {1, 12}}
    /\ encoded_dna = <<>>
    /\ ecc = <<>>
    /\ corrupted = <<>>
    /\ received_ecc = <<>>
    /\ corrected = <<>>
    /\ rs_block = <<>>
    /\ status = "none"
    /\ what = ""
    /\ cpc = "idle"
    /\ mapped_symbols = <<>>
    /\ mapped_dna = <<>>
    /\ input_buffer = <<>>
    /\ output_buffer = <<>>
    /\ decoder_block = <<>>
    /\ PipeIdle

Instantiate ==
    /\ instance = "template"
    /\ instance' = IF static_assert_ok(config) THEN "accepted" ELSE "rejected"
    /\ UNCHANGED <<codecVars, pipeVars, config, mapped_symbols, mapped_dna,
                   input_buffer, output_buffer,
                   decoder_block>>

Construct ==
    /\ instance = "accepted"
    /\ instance' = "constructed"
    /\ UNCHANGED <<codecVars, pipeVars, config, mapped_symbols, mapped_dna,
                   input_buffer, output_buffer,
                   decoder_block>>

ConfigEncode ==
    /\ instance = "constructed"
    /\ config.FecLength = 4
    /\ config.CodeLength >= 11
    /\ \E r \in {template_encode(config, original)} :
           /\ status' = r.status
           /\ what' = r.what
           /\ encoded_dna' = r.dna
           /\ ecc' = r.ecc
    /\ instance' = "encoded"
    /\ UNCHANGED <<original, corrupted, received_ecc, corrected, rs_block, cpc, pipeVars,
                   config, mapped_symbols, mapped_dna, input_buffer, output_buffer,
                   decoder_block>>

ConfigNext == Instantiate \/ Construct \/ ConfigEncode

SpecConfig == ConfigInit /\ [][ConfigNext]_vars

\* C22: a configuration (n, fec, k) is rejected unless 0 < k < n and n <= 15:
\* no instantiation with k = n (fec = 0), k = 0 or n > 15 gets past the static
\* assertions and the constructor.
C22_DegenerateConfigRejected ==
    instance \in {"accepted", "constructed", "encoded"} =>
        /\ 0 < config.DataLength
        /\ config.DataLength < config.CodeLength
        /\ config.CodeLength <= 15

\* C23: in every accepted instantiation encode returns the FecLength parity
\* symbols of RS(CodeLength, DataLength): the DataLength data symbols followed
\* by the returned ecc are a word of length CodeLength that vanishes at
\* alpha^1 .. alpha^FecLength.
C23_ParityFollowsTemplate ==
    (instance = "encoded" /\ status = "ok") =>
        /\ Len(ecc) = config.FecLength
        /\ \A j \in 1..config.FecLength :
               PolyEval([k \in 0..(config.CodeLength - 1) |->
                            (dna_to_symbols(encoded_dna) \o ecc)[config.CodeLength - k]],
                        config.CodeLength - 1, alpha(j)) = 0

(***************************************************************************)
(* ParallelDNAStorage::processParallel.  blocks are the host chunks,       *)
(* input_buffer and output_buffer the device buffers, one entry per chunk  *)
(* (<<>> until a thread has written it).  Each kernel runs one thread per  *)
(* chunk, in any order; claimed are the threads of the current kernel that *)
(* have run, and cudaDeviceSynchronize waits for all of them.  The result  *)
(* string has the length of the input; characters past the last whole      *)
(* chunk stay "NUL".                                                       *)
(***************************************************************************)
TestSequence ==
    StrSeq("ACGTACGTACG")
        \o <<"T", "G", "C", "A", "T", "G", "C", "A", "T", "G", "C">>
        \o <<"G", "A", "T", "C", "G", "A", "T", "C", "G", "A", "T">>
        \o <<"C", "T", "A", "G", "C", "T", "A", "G", "C", "T", "A">>

CudaLengths == {0, 11, 12, 22, 33}

CudaInputs ==
    {SubSeq(TestSequence, 1, n) : n \in CudaLengths \cup {Len(TestSequence)}}
        \cup {SubSeq(Genome, 1, n) : n \in CudaLengths}

splitIntoChunks(input, chunk_size) ==
    [i \in 1..(Len(input) \div chunk_size) |->
        SubSeq(input, (i - 1) * chunk_size + 1, i * chunk_size)]

encodeChunk(input, k) == [i \in 1..CodeLength |-> IF i <= k THEN input[i] ELSE "N"]

decodeChunk(input, k) == [i \in 1..k |-> input[i]]

introduceErrors(chunk) ==
    [chunk EXCEPT ![2] = IF chunk[2] = "A" THEN "C" ELSE "A",
                  ![6] = IF chunk[6] = "G" THEN "T" ELSE "G"]

CudaInit ==
    /\ CodecIdle
    /\ config = NoConfig
    /\ instance = "none"
    /\ mapped_symbols = <<>>
    /\ mapped_dna = <<>>
    /\ input_buffer = <<>>
    /\ output_buffer = <<>>
    /\ decoder_block = <<>>
    /\ variant = "cuda"
    /\ input_sequence \in CudaInputs
    /\ errors_per_block = 2
    /\ num_threads = 0
    /\ blocks = <<>>
    /\ decoded_blocks = <<>>
    /\ block_stats = <<>>
    /\ all_blocks_processed = TRUE
    /\ output_sequence = <<>>
    /\ ret = "none"
    /\ result = NoResult
    /\ ppc = "call"
    /\ worker = <<>>
    /\ claimed = {}
    /\ processed = {}
    /\ failed = {}
    /\ order = <<>>
    /\ run = 1
    /\ previous = <<>>

CudaCopyToDevice ==
    /\ ppc = "call"
    /\ variant = "cuda"
    /\ \E chunks \in {splitIntoChunks(input_sequence, DataLength)} :
          /\ blocks' = chunks
          /\ input_buffer' = chunks
          /\ output_buffer' = [i \in 1..Len(chunks) |-> <<>>]
          /\ num_threads' = Len(chunks)
    /\ ppc' = "encodeChunksKernel"
    /\ UNCHANGED <<codecVars, config, instance, mapped_symbols, mapped_dna,
                   decoder_block, variant,
                   input_sequence, errors_per_block, decoded_blocks, block_stats,
                   all_blocks_processed, output_sequence, ret, result, worker, claimed,
                   processed, failed, order, run, previous>>

KernelThread(idx) ==
    /\ ppc \in {"encodeChunksKernel", "introduceErrorsKernel", "decodeChunksKernel"}
    /\ idx \in (1..num_threads) \ claimed
    /\ claimed' = claimed \cup {idx}
    /\ CASE ppc = "encodeChunksKernel" ->
               /\ output_buffer' = [output_buffer EXCEPT
                                       ![idx] = encodeChunk(input_buffer[idx], DataLength)]
               /\ UNCHANGED input_buffer
         [] ppc = "introduceErrorsKernel" ->
               /\ output_buffer' = [output_buffer EXCEPT
                                       ![idx] = introduceErrors(output_buffer[idx])]
               /\ UNCHANGED input_buffer
         [] ppc = "decodeChunksKernel" ->
               /\ input_buffer' = [input_buffer EXCEPT
                                      ![idx] = decodeChunk(output_buffer[idx], DataLength)]
               /\ UNCHANGED output_buffer
    /\ UNCHANGED <<codecVars, config, instance, mapped_symbols, mapped_dna,
                   decoder_block, variant,
                   input_sequence, errors_per_block, num_threads, blocks, decoded_blocks,
                   block_stats, all_blocks_processed, output_sequence, ret, result, ppc,
                   worker, processed, failed, order, run, previous>>

DeviceSynchronize ==
    /\ ppc \in {"encodeChunksKernel", "introduceErrorsKernel", "decodeChunksKernel"}
    /\ claimed = 1..num_threads
    /\ claimed' = {}
    /\ ppc' = CASE ppc = "encodeChunksKernel" -> "introduceErrorsKernel"
                [] ppc = "introduceErrorsKernel" -> "decodeChunksKernel"
                [] ppc = "decodeChunksKernel" -> "copy_back"
    /\ UNCHANGED <<codecVars, extVars, variant, input_sequence, errors_per_block,
                   num_threads, blocks, decoded_blocks, block_stats, all_blocks_processed,
                   output_sequence, ret, result, worker, processed, failed, order, run,
                   previous>>

CudaCopyBack ==
    /\ ppc = "copy_back"
    /\ decoded_blocks' = input_buffer
    /\ output_sequence' =
           Concat(input_buffer, 1)
               \o [i \in 1..(Len(input_sequence) - DataLength * Len(input_buffer)) |-> "NUL"]
    /\ input_buffer' = <<>>
    /\ output_buffer' = <<>>
    /\ ret' = "result"
    /\ ppc' = "done"
    /\ UNCHANGED <<codecVars, config, instance, mapped_symbols, mapped_dna,
                   decoder_block, variant,
                   input_sequence, errors_per_block, num_threads, blocks, block_stats,
                   all_blocks_processed, result, worker, claimed, processed, failed, order,
                   run, previous>>

CudaNext ==
    \/ CudaCopyToDevice
    \/ \E idx \in 1..num_threads : KernelThread(idx)
    \/ DeviceSynchronize
    \/ CudaCopyBack

SpecCuda == CudaInit /\ [][CudaNext]_vars

\* C24: for every input whose length is a positive multiple of 11,
\* processParallel (encode kernel, two errors at positions 1 and 5 of every
\* encoded chunk, decode kernel, reassembly by chunk index) returns the input.
C24_ProcessParallelReturnsInput ==
    (/\ variant = "cuda"
     /\ ppc = "done"
     /\ Len(input_sequence) > 0
     /\ Len(input_sequence) % DataLength = 0)
        => output_sequence = input_sequence

\* C25: the benchmark reports 100% correction: when a run with
\* errors_per_block 1 or 2 has returned, total_errors_corrected equals
\* total_errors_introduced.
C25_AllIntroducedErrorsCorrected ==
    (/\ variant = "benchmark"
     /\ ppc = "done"
     /\ errors_per_block \in {1, 2})
        => result.total_errors_corrected = result.total_errors_introduced

(***************************************************************************)
(* The loop body step by step, for process_dna_sequence_parallel           *)
(* (variant "parallel": process_block caps the error count at              *)
(* ECC_SYMBOLS / 2) and for process_blocks_parallel (variant "blocks": the *)
(* error count is passed to introduce_errors as it is, and a caught        *)
(* exception stores an empty string).  A worker encodes its block, runs    *)
(* introduce_errors draw by draw -- a position, then a base, drawn again   *)
(* while it equals the base at that position -- and decodes the result.    *)
(* Sequences of two blocks are run with at most one error per block.  ret  *)
(* is the bool the parallel function will return, FALSE until it does.     *)
(***************************************************************************)
StepPositions == {2, 6, 11}

StepLengths == {0, 5, 11, 12, 22}

StepInputs ==
    {SubSeq(Genome, 1, n) : n \in StepLengths}
        \cup {[SubSeq(Genome, 1, n) EXCEPT ![1] = "N"] : n \in StepLengths \ {0}}

StepCalls ==
    {c \in StepInputs \X (0..MaxErrorsPerBlock) : Len(c[1]) <= BLOCK_SIZE \/ c[2] <= 1}

StepInit ==
    /\ CodecIdle
    /\ ExtIdle
    /\ variant \in {"parallel", "blocks"}
    /\ \E c \in StepCalls :
          /\ input_sequence = c[1]
          /\ errors_per_block = c[2]
    /\ num_threads \in 1..MaxThreads
    /\ blocks = <<>>
    /\ decoded_blocks = <<>>
    /\ block_stats = <<>>
    /\ all_blocks_processed = TRUE
    /\ output_sequence = <<>>
    /\ ret = IF variant = "parallel" THEN FALSE ELSE "none"
    /\ result = NoResult
    /\ ppc = "call"
    /\ worker = <<>>
    /\ claimed = {}
    /\ processed = {}
    /\ failed = {}
    /\ order = <<>>
    /\ run = 1
    /\ previous = <<>>

(***************************************************************************)
(* The blocks handed to encode, the strings introduce_errors can make of   *)
(* them, and the results of encode and decode on these, computed once      *)
(* (f @@ <<>> is f, as an explicit table).                                 *)
(***************************************************************************)
StepBlocks ==
    UNION {{pad_block(split_into_blocks(s, BLOCK_SIZE)[k], BLOCK_SIZE) :
               k \in 1..Len(split_into_blocks(s, BLOCK_SIZE))} : s \in StepInputs}

StepCorruptions(block) ==
    {[p \in 1..Len(block) |-> IF p \in StepPositions THEN f[p] ELSE block[p]] :
        f \in [StepPositions -> {Bases[k] : k \in 1..4}]}

step_encode_results == [b \in StepBlocks |-> encode(b)] @@ <<>>

step_decode_results ==
    [b \in {x \in StepBlocks : ValidSequence(x)} |->
        [c \in StepCorruptions(b) |-> decode(c, step_encode_results[b].ecc)] @@ <<>>]
        @@ <<>>

errors_to_introduce(error_count) ==
    IF variant = "parallel" THEN Min(error_count, ECC_SYMBOLS \div 2) ELSE error_count

StepThrown(w) ==
    [IdleWorker EXCEPT !.pc = IF variant = "parallel" THEN "critical" ELSE "caught",
                       !.i = worker[w].i]

StepEncode(w) ==
    /\ ppc = "loop"
    /\ variant \in {"parallel", "blocks"}
    /\ worker[w].pc = "body"
    /\ \E r \in {step_encode_results[OriginalBlock(worker[w].i)]} :
          IF r.status # "ok"
          THEN /\ worker' = [worker EXCEPT ![w] = StepThrown(w)]
               /\ failed' = failed \cup {worker[w].i}
               /\ processed' = processed \cup {worker[w].i}
          ELSE /\ worker' = [worker EXCEPT ![w] =
                                [pc |-> IF errors_to_introduce(errors_per_block) = 0
                                        THEN "decode" ELSE "draw_pos",
                                 i |-> worker[w].i,
                                 decoded_block |-> <<>>,
                                 encoded_dna |-> r.dna,
                                 ecc |-> r.ecc,
                                 corrupted |-> r.dna,
                                 remaining |-> errors_to_introduce(errors_per_block),
                                 pos |-> 0,
                                 new_base |-> ""]]
               /\ UNCHANGED <<failed, processed>>
    /\ UNCHANGED <<codecVars, extVars, variant, input_sequence, errors_per_block, num_threads,
                   blocks, decoded_blocks, block_stats, all_blocks_processed,
                   output_sequence, ret, result, ppc, claimed, order, run, previous>>

DrawPosition(w) ==
    /\ ppc = "loop"
    /\ worker[w].pc = "draw_pos"
    /\ \E pos \in StepPositions :
          worker' = [worker EXCEPT ![w].pc = "draw_base", ![w].pos = pos]
    /\ UNCHANGED <<codecVars, extVars, variant, input_sequence, errors_per_block, num_threads,
                   blocks, decoded_blocks, block_stats, all_blocks_processed,
                   output_sequence, ret, result, ppc, claimed, processed, failed, order,
                   run, previous>>

DrawBase(w) ==
    /\ ppc = "loop"
    /\ worker[w].pc = "draw_base"
    /\ \E new_base \in {Bases[k] : k \in 1..4} :
          worker' = [worker EXCEPT ![w].pc = "test_base", ![w].new_base = new_base]
    /\ UNCHANGED <<codecVars, extVars, variant, input_sequence, errors_per_block, num_threads,
                   blocks, decoded_blocks, block_stats, all_blocks_processed,
                   output_sequence, ret, result, ppc, claimed, processed, failed, order,
                   run, previous>>

same_base_always(new_base, original_base) == TRUE

same_base(new_base, original_base) == new_base = original_base

TestBase(w) ==
    /\ ppc = "loop"
    /\ worker[w].pc = "test_base"
    /\ IF same_base(worker[w].new_base, worker[w].corrupted[worker[w].pos])
       THEN worker' = [worker EXCEPT ![w].pc = "draw_base"]
       ELSE worker' = [worker EXCEPT
                          ![w].corrupted = [@ EXCEPT ![worker[w].pos] = worker[w].new_base],
                          ![w].remaining = @ - 1,
                          ![w].pos = 0,
                          ![w].new_base = "",
                          ![w].pc = IF worker[w].remaining = 1 THEN "decode" ELSE "draw_pos"]
    /\ UNCHANGED <<codecVars, extVars, variant, input_sequence, errors_per_block, num_threads,
                   blocks, decoded_blocks, block_stats, all_blocks_processed,
                   output_sequence, ret, result, ppc, claimed, processed, failed, order,
                   run, previous>>

StepDecode(w) ==
    /\ ppc = "loop"
    /\ variant \in {"parallel", "blocks"}
    /\ worker[w].pc = "decode"
    /\ \E r \in {step_decode_results[worker[w].encoded_dna][worker[w].corrupted]} :
          IF r.status # "ok"
          THEN /\ worker' = [worker EXCEPT ![w] = StepThrown(w)]
               /\ failed' = failed \cup {worker[w].i}
          ELSE /\ worker' = [worker EXCEPT
                                 ![w].pc = "store",
                                 ![w].decoded_block =
                                     SubSeq(r.dna, 1, Min(BLOCK_SIZE, Len(r.dna)))]
               /\ UNCHANGED failed
    /\ processed' = processed \cup {worker[w].i}
    /\ UNCHANGED <<codecVars, extVars, variant, input_sequence, errors_per_block, num_threads,
                   blocks, decoded_blocks, block_stats, all_blocks_processed,
                   output_sequence, ret, result, ppc, claimed, order, run, previous>>

StepCaught(w) ==
    /\ ppc = "loop"
    /\ worker[w].pc = "caught"
    /\ decoded_blocks' = store_block(decoded_blocks, worker[w].i, <<>>)
    /\ worker' = [worker EXCEPT ![w] = IdleWorker]
    /\ UNCHANGED <<codecVars, extVars, variant, input_sequence, errors_per_block, num_threads,
                   blocks, block_stats, all_blocks_processed, output_sequence, ret, result,
                   ppc, claimed, processed, failed, order, run, previous>>

BlocksReturn ==
    /\ ppc = "joined"
    /\ variant = "blocks"
    /\ ret' = "void"
    /\ ppc' = "done"
    /\ UNCHANGED <<codecVars, extVars, variant, input_sequence, errors_per_block, num_threads,
                   blocks, decoded_blocks, block_stats, all_blocks_processed,
                   output_sequence, result, worker, claimed, processed, failed, order,
                   run, previous>>

StepNext ==
    \/ Split
    \/ \E w \in DOMAIN worker : TakeIteration(w)
    \/ \E w \in DOMAIN worker : StepEncode(w)
    \/ \E w \in DOMAIN worker : DrawPosition(w)
    \/ \E w \in DOMAIN worker : DrawBase(w)
    \/ \E w \in DOMAIN worker : TestBase(w)
    \/ \E w \in DOMAIN worker : StepDecode(w)
    \/ \E w \in DOMAIN worker : Store(w)
    \/ \E w \in DOMAIN worker : EnterCritical(w)
    \/ \E w \in DOMAIN worker : Critical(w)
    \/ \E w \in DOMAIN worker : StepCaught(w)
    \/ Join
    \/ Finish
    \/ BlocksReturn

SpecStep == StepInit /\ [][StepNext]_vars

\* C26: injected corruption never exceeds the correctable bound: for every
\* errors_per_block the block a worker hands to decode differs from the encoded
\* block in at most 2 positions, the ecc is the one encode returned, and no
\* block of a sequence of valid bases fails.
C26_CorruptionWithinBound ==
    /\ \A w \in DOMAIN worker :
           worker[w].pc = "decode" =>
               /\ NumDiff(worker[w].corrupted, worker[w].encoded_dna) <= ECC_SYMBOLS \div 2
               /\ worker[w].ecc = encode(worker[w].encoded_dna).ecc
    /\ ValidSequence(input_sequence) => failed = {}

(***************************************************************************)
(* Scheduling of the step-by-step loop.  Every thread of the OpenMP team   *)
(* keeps running (weak fairness of its next step, and of the steps of the  *)
(* calling thread), and the generator of introduce_errors does not return  *)
(* the base it has to differ from for ever (strong fairness of a draw that *)
(* leaves the do-while loop).  Every one of these steps changes ppc or     *)
(* worker.                                                                 *)
(***************************************************************************)
WorkerStep(w) ==
    /\ w \in DOMAIN worker
    /\ \/ TakeIteration(w)
       \/ StepEncode(w)
       \/ DrawPosition(w)
       \/ DrawBase(w)
       \/ TestBase(w)
       \/ StepDecode(w)
       \/ Store(w)
       \/ EnterCritical(w)
       \/ Critical(w)
       \/ StepCaught(w)

DrawOtherBase(w) ==
    /\ w \in DOMAIN worker
    /\ DrawBase(w)
    /\ ~same_base(worker'[w].new_base, worker[w].corrupted[worker[w].pos])

stepVars == <<ppc, worker>>

StepFairness ==
    /\ WF_stepVars(Split)
    /\ WF_stepVars(Join)
    /\ WF_stepVars(Finish)
    /\ WF_stepVars(BlocksReturn)
    /\ \A w \in 1..MaxThreads :
           WF_stepVars(WorkerStep(w)) /\ SF_stepVars(DrawOtherBase(w))

SpecStepFair == StepInit /\ [][StepNext]_vars /\ StepFairness

\* C30: every pipeline run terminates: under fair scheduling and fair draws the
\* call eventually returns; when it has returned every block iteration has been
\* handed out and carried through and no worker is inside the loop body; and an
\* iteration is only ever handed to a worker if no worker has taken it before.
C30_EveryRunTerminates ==
    /\ <>(ppc = "done")
    /\ [](ppc = "done" =>
            /\ claimed = 1..Len(blocks)
            /\ processed = 1..Len(blocks)
            /\ Len(blocks) = (Len(input_sequence) + BLOCK_SIZE - 1) \div BLOCK_SIZE
            /\ \A w \in DOMAIN worker : worker[w].pc = "idle")
    /\ [][(ppc = "loop" /\ ppc' = "loop") =>
             \A w \in DOMAIN worker :
                 (worker[w].pc = "idle" /\ worker'[w].pc = "body") =>
                     /\ worker'[w].i \notin claimed
                     /\ worker'[w].i \in claimed']_vars

C30_Witness ==
    /\ ppc = "done"
    /\ variant = "parallel"
    /\ num_threads = 2
    /\ errors_per_block = 1
    /\ Len(blocks) = 2
    /\ processed = {1, 2}
    /\ order = <<2, 1>>
    /\ output_sequence = input_sequence

(***************************************************************************)
(* decode on ecc vectors of arbitrary bytes.  The caller's vector is a     *)
(* std::vector<std::uint8_t>, so each entry is any value of 0..255, and    *)
(* decode stores the four bytes in the block as they are.  The decoder's   *)
(* field tables have FieldSize + 1 entries: a symbol above FieldSize makes *)
(* it read outside them, and the call then ends in any of its ways -- the  *)
(* decoder reports failure, symbols_to_dna throws, or a string of 11 bases *)
(* (here one of TestBlocks) is returned.                                   *)
(***************************************************************************)
ByteValues == {0, 7, 15, 16, 200, 255}

outside_field(block) == \E i \in DOMAIN block : block[i] > FieldSize

decode_outcomes(block) ==
    IF outside_field(block)
    THEN {[status |-> "runtime_error", what |-> "Reed-Solomon decoding failed",
           dna |-> <<>>, block |-> block],
          [status |-> "runtime_error", what |-> "Invalid symbol value",
           dna |-> <<>>, block |-> block]}
             \cup {[status |-> "ok", what |-> "", dna |-> d, block |-> block] :
                      d \in TestBlocks}
    ELSE {decode_result(rs_decoder_decode(block))}

ReplaceEccByte ==
    /\ cpc = "encoded"
    /\ received_ecc = ecc
    /\ \E p \in 1..FecLength, v \in ByteValues :
          /\ v # received_ecc[p]
          /\ received_ecc' = [received_ecc EXCEPT ![p] = v]
    /\ UNCHANGED <<original, encoded_dna, ecc, corrupted, corrected, rs_block, status,
                   what, cpc, pipeVars, extVars>>

DecodeBytes ==
    /\ cpc = "encoded"
    /\ validate_dna(corrupted)
    /\ Len(corrupted) = DataLength
    /\ Len(received_ecc) = FecLength
    /\ \E b \in {decode_block(dna_to_symbols(corrupted), received_ecc)} :
          /\ decoder_block' = b
          /\ \E r \in decode_outcomes(b) :
                /\ status' = r.status
                /\ what' = r.what
                /\ corrected' = r.dna
                /\ rs_block' = r.block
    /\ cpc' = "decoded"
    /\ UNCHANGED <<original, encoded_dna, ecc, corrupted, received_ecc, pipeVars, config,
                   instance, mapped_symbols, mapped_dna, input_buffer, output_buffer>>

ByteNext == RunEncode \/ ReplaceEccByte \/ DecodeBytes

SpecBytes == CodecInit /\ [][ByteNext]_vars

\* C27: every symbol of the block that encode or decode hands to the
\* Reed-Solomon coder is a field symbol, below 2^4 = 16, and every ecc byte
\* encode returns is in 0..15: no ecc byte of 16 or more supplied by the
\* caller of decode gets into the block.
C27_BlockSymbolsInField ==
    /\ \A i \in DOMAIN ecc : ecc[i] \in 0..FieldSize
    /\ \A i \in DOMAIN decoder_block : decoder_block[i] \in 0..FieldSize

\* C28: whenever decode returns normally its result has exactly 11
\* characters, each one of A, C, G, T; when the Reed-Solomon correction
\* leaves one of the 11 data symbols of the block above 3, decode throws
\* and returns no sequence.
C28_DecodeReturnsElevenBases ==
    cpc = "decoded" =>
        /\ status = "ok" =>
              /\ Len(corrected) = DataLength
              /\ \A i \in 1..Len(corrected) : corrected[i] \in {"A", "C", "G", "T"}
        /\ (\E i \in 1..DataLength : rs_block[i] > 3) =>
              /\ status = "runtime_error"
              /\ corrected = <<>>

C28_Witness ==
    /\ cpc = "decoded"
    /\ NumDiff(corrupted, encoded_dna) = 3
    /\ \E i \in 1..DataLength : rs_block[i] > 3
    /\ status = "runtime_error"
    /\ what = "Invalid symbol value"

\* C29: in the benchmark pipeline an exception thrown while block i is
\* encoded or decoded is caught in process_block: slot i of decoded_blocks
\* becomes 11 'N' characters, storing a block changes no other slot, the
\* slots of the blocks that did not fail hold 11 bases, and at the return
\* output_sequence has exactly the length of the input, whichever blocks
\* failed.
C29_FailedBlockBecomesN ==
    /\ [](variant = "benchmark" =>
             /\ failed \subseteq processed
             /\ \A i \in failed : decoded_blocks[i] = [j \in 1..BLOCK_SIZE |-> "N"]
             /\ \A i \in processed \ failed :
                   /\ Len(decoded_blocks[i]) = BLOCK_SIZE
                   /\ ValidSequence(decoded_blocks[i])
             /\ ppc = "done" => Len(output_sequence) = Len(input_sequence))
    /\ [][(variant = "benchmark" /\ ppc = "loop" /\ ppc' = "loop") =>
             \A i \in 1..Len(blocks) :
                 (i \in processed <=> i \in processed') =>
                     decoded_blocks'[i] = decoded_blocks[i]]_vars

C29_Witness ==
    /\ variant = "benchmark"
    /\ ppc = "done"
    /\ Len(input_sequence) = 12
    /\ failed = {1}
    /\ processed = {1, 2}
    /\ decoded_blocks[1] = [j \in 1..BLOCK_SIZE |-> "N"]
    /\ output_sequence = [j \in 1..BLOCK_SIZE |-> "N"] \o <<input_sequence[12]>>

====
